---- MODULE Spec2Model ----
(***************************************************************************)
(* DistroBaker (lib/distrobaker.py): the configuration loader, the         *)
(* per-component synchronization pipeline (sync_repo, sync_cache,          *)
(* sync_module_components), build submission (build_comp) and the two      *)
(* dispatchers (process_message, process_components), as one sequential    *)
(* state machine.  Remote systems (git, lookaside caches, koji, MBS) are   *)
(* the environment: every remote call draws its outcome with \E.           *)
(*                                                                         *)
(* Strings of the program are sequences of atomic tokens, so that          *)
(* str.split, str.format and the % operator are computed, not assumed.     *)
(***************************************************************************)
EXTENDS Integers, Sequences, FiniteSets, TLC

VARIABLES
    c,          \* the global configuration dictionary (line 25)
    retry,      \* the global retry count (line 28)
    dry_run,    \* the global dry-run flag (line 31)
    lc,         \* the last load_config call: its document and its outcome
    sess,       \* the sessions get_buildsys caches, by role
    call,       \* the entry point being executed and its arguments
    pc,         \* the position of the program inside the entry point
    todo,       \* process_components: the records still to be processed
    top,        \* the sync_repo frame of the dispatched component
    sub,        \* the sync_repo frame of a module constituent
    mod,        \* the sync_module_components frame
    sc,         \* the sync_cache frame
    attempt,    \* the loop variable of the retry loop being executed
    ret,        \* return values of the calls that have returned
    fx,         \* the remote effects of the current entry-point call
    koji,       \* the clock and the attributes of get_buildsys, call by call
    pair        \* two runs of sync_cache side by side, one of them a dry run

vars == <<c, retry, dry_run, lc, sess, call, pc, todo, top, sub, mod, sc,
          attempt, ret, fx, koji, pair>>

(***************************************************************************)
(* Bounds of the model.                                                    *)
(***************************************************************************)
MaxRetry == 2       \* retry ranges over 0..MaxRetry
MaxMissing == 1     \* a configuration document lacks at most this many keys
MaxTagged == 2      \* listTagged returns at most this many module builds
MaxComps == 2       \* process_components handles at most this many records

(***************************************************************************)
(* Strings.                                                                *)
(***************************************************************************)
\* Python's None where a string is expected.
None == <<"<None>">>

\* Truthiness of an optional string: None and "" are false.
Truthy(s) == s # None /\ s # <<>>

RECURSIVE Split(_, _)
\* s.split(sep)
Split(s, sep) ==
    IF \A i \in 1..Len(s) : s[i] # sep
    THEN <<s>>
    ELSE LET i == CHOOSE k \in 1..Len(s) :
                      s[k] = sep /\ \A j \in 1..(k - 1) : s[j] # sep
         IN  <<SubSeq(s, 1, i - 1)>> \o Split(SubSeq(s, i + 1, Len(s)), sep)

\* s.split(sep, 1)
Split1(s, sep) ==
    IF \A i \in 1..Len(s) : s[i] # sep
    THEN <<s>>
    ELSE LET i == CHOOSE k \in 1..Len(s) :
                      s[k] = sep /\ \A j \in 1..(k - 1) : s[j] # sep
         IN  <<SubSeq(s, 1, i - 1), SubSeq(s, i + 1, Len(s))>>

split_scmurl(scmurl) ==
    LET scm == Split1(scmurl, "#")
        nscomp == Split(scm[1], "/")
    IN  [link |-> scm[1],
         ref |-> IF Len(scm) >= 2 THEN scm[2] ELSE None,
         ns |-> IF Len(nscomp) >= 2 THEN nscomp[Len(nscomp) - 1] ELSE None,
         comp |-> nscomp[Len(nscomp)]]

split_module(comp) ==
    LET ms == Split(comp, ":")
    IN  [name |-> ms[1],
         stream |-> IF Len(ms) > 1 /\ ms[2] # <<>> THEN ms[2] ELSE <<"master">>]

\* The mapping keys a template may name.
Placeholders == {"%(component)s", "%(stream)s", "%(name)s", "%(ref)s"}

\* template % mapping raises KeyError when the template names a missing key.
KeyError(t, m) ==
    \E i \in 1..Len(t) : t[i] \in Placeholders /\ t[i] \notin DOMAIN m

RECURSIVE Expand(_, _)
\* template % mapping
Expand(t, m) ==
    IF t = <<>>
    THEN <<>>
    ELSE (IF Head(t) \in DOMAIN m THEN m[Head(t)] ELSE <<Head(t)>>)
             \o Expand(Tail(t), m)

\* "{}/{}/{}".format(a, b, c)
Join3(a, b, x) == a \o <<"/">> \o b \o <<"/">> \o x

(***************************************************************************)
(* The universe of components.                                             *)
(***************************************************************************)
RpmA == <<"a">>
RpmB == <<"B">>
ModM == <<"m", ":", "1">>
Namespaces == {"rpms", "modules"}
CompNames == [rpms |-> {RpmA, RpmB}, modules |-> {ModM}]

(***************************************************************************)
(* The configuration document distrobaker.yaml.  A document is the full    *)
(* document of its version with the subtrees of doc.missing removed; key   *)
(* paths are tuples of keys.                                               *)
(***************************************************************************)
EmptyMap == [x \in {} |-> <<>>]

EndpointKeys(k) ==
    {<<k>>, <<k, "scm">>, <<k, "cache">>, <<k, "cache", "url">>,
     <<k, "cache", "cgi">>, <<k, "cache", "path">>, <<k, "profile">>,
     <<k, "mbs">>, <<k, "mbs", "auth_method">>, <<k, "mbs", "api_url">>}

OidcKeys == {"oidc_id_provider", "oidc_client_id", "oidc_client_secret",
             "oidc_scopes"}

ConfigurationKeys ==
    EndpointKeys("source") \cup EndpointKeys("destination")
    \cup {<<"destination", "mbs", r>> : r \in OidcKeys}
    \cup {<<"trigger">>, <<"trigger", "rpms">>, <<"trigger", "modules">>,
          <<"build">>, <<"build", "prefix">>, <<"build", "target">>,
          <<"build", "platform">>, <<"build", "scratch">>,
          <<"git">>, <<"git", "author">>, <<"git", "email">>,
          <<"git", "message">>,
          <<"control">>, <<"control", "build">>, <<"control", "merge">>,
          <<"control", "strict">>, <<"control", "exclude">>,
          <<"control", "exclude", "rpms">>, <<"control", "exclude", "modules">>,
          <<"defaults">>}
    \cup UNION {{<<"defaults", dk>>, <<"defaults", dk, "source">>,
                 <<"defaults", dk, "destination">>} :
                    dk \in {"cache", "rpms", "modules"}}
    \cup {<<"defaults", "modules", "rpms">>,
          <<"defaults", "modules", "rpms", "source">>,
          <<"defaults", "modules", "rpms", "destination">>}

Keys ==
    {<<"configuration">>} \cup {<<"configuration">> \o p : p \in ConfigurationKeys}
    \cup {<<"components">>, <<"components", "rpms">>, <<"components", "modules">>}

\* "k in mapping", along the whole path
Has(doc, p) == \A i \in 1..Len(p) : SubSeq(p, 1, i) \notin doc.missing

\* the same below y["configuration"]
In(doc, p) == Has(doc, <<"configuration">> \o p)

\* The scalar a version of the document stores at a key.
Lit(doc, p) == p \o <<doc.ver>>

\* The template strings a version of the document stores under defaults.
Tmpl(doc, p) ==
    CASE p = <<"cache", "source">> -> <<"%(component)s">>
      [] p = <<"cache", "destination">> ->
            IF doc.ver = "v1" THEN <<"%(component)s">>
                              ELSE <<"d.", "%(component)s">>
      [] p = <<"rpms", "source">> -> <<"%(component)s", ".git">>
      [] p = <<"rpms", "destination">> ->
            IF doc.ver = "v1" THEN <<"%(component)s", ".git">>
                              ELSE <<"%(component)s", ".git", "#", "rhel">>
      [] p = <<"modules", "source">> ->
            <<"%(component)s", ".git", "#", "%(stream)s">>
      [] p = <<"modules", "destination">> ->
            <<"%(component)s", ".git", "#", "%(stream)s", ".fluff">>
      [] p = <<"modules", "rpms", "source">> -> <<"%(component)s", ".git">>
      [] p = <<"modules", "rpms", "destination">> ->
            <<"%(component)s", ".git", "#", "stream.", "%(name)s", ".",
              "%(stream)s">>

(***************************************************************************)
(* load_config: validation of the configuration block (lines 231-472).     *)
(* Each check gives "ok", "none" (the function returns None) or "raise"    *)
(* (an exception leaves the function).  The document is taken to be made   *)
(* of mappings, and the MBS authentication modules to be importable.       *)
(***************************************************************************)
mbs_required_configs(doc) ==
    {"auth_method", "api_url"}
        \cup (IF doc.auth = "oidc" THEN OidcKeys ELSE {})

\* lines 234-346, for k = "source" or "destination"
CheckEndpoint(doc, k) ==
    IF ~In(doc, <<k>>) THEN "none"
    ELSE IF ~In(doc, <<k, "scm">>) THEN "none"
    ELSE IF ~In(doc, <<k, "cache">>) THEN "none"
    ELSE IF \E kc \in {"url", "cgi", "path"} : ~In(doc, <<k, "cache", kc>>)
         THEN "none"
    ELSE IF ~In(doc, <<k, "profile">>) THEN "none"
    ELSE IF In(doc, <<k, "mbs">>)
         THEN IF k = "destination"
              THEN IF ~In(doc, <<k, "mbs", "auth_method">>) THEN "none"
                   ELSE IF doc.auth \notin {"oidc", "kerberos"} THEN "none"
                   ELSE IF \E r \in mbs_required_configs(doc) :
                               ~In(doc, <<k, "mbs", r>>)
                        THEN "none"
                   ELSE "ok"
              ELSE "ok"
         ELSE IF k = "destination" THEN "none" ELSE "ok"

\* lines 347-356: a missing trigger.rpms or trigger.modules is only logged
CheckTrigger(doc) ==
    IF ~In(doc, <<"trigger">>) THEN "none" ELSE "ok"

\* lines 357-381
CheckBuild(doc) ==
    IF ~In(doc, <<"build">>) THEN "none"
    ELSE IF \E k \in {"prefix", "target", "platform"} : ~In(doc, <<"build", k>>)
         THEN "none"
    ELSE IF \A i \in 1..Len(doc.platform) : doc.platform[i] # ":" THEN "none"
    ELSE "ok"

\* lines 382-392
CheckGit(doc) ==
    IF ~In(doc, <<"git">>) THEN "none"
    ELSE IF \E k \in {"author", "email", "message"} : ~In(doc, <<"git", k>>)
         THEN "none"
    ELSE "ok"

\* lines 393-422
CheckControl(doc) ==
    IF ~In(doc, <<"control">>) THEN "none"
    ELSE IF \E k \in {"build", "merge", "strict"} : ~In(doc, <<"control", k>>)
         THEN "none"
    ELSE "ok"

\* lines 423-469: a missing defaults.<dk>.<dkk> is only logged; reading the
\* missing defaults.rpms.<dkk> for defaults.modules.rpms.<dkk> raises KeyError
CheckDefaults(doc) ==
    IF ~In(doc, <<"defaults">>) THEN "none"
    ELSE IF \E dk \in {"cache", "rpms", "modules"} : ~In(doc, <<"defaults", dk>>)
         THEN "none"
    ELSE IF \E dkk \in {"source", "destination"} :
                /\ ~In(doc, <<"defaults", "modules", "rpms", dkk>>)
                /\ ~In(doc, <<"defaults", "rpms", dkk>>)
         THEN "raise"
    ELSE "ok"

\* the first check of lines 232-472 that does not pass
ValidateMain(doc) ==
    IF ~Has(doc, <<"configuration">>) THEN "none"
    ELSE IF CheckEndpoint(doc, "source") # "ok" THEN CheckEndpoint(doc, "source")
    ELSE IF CheckEndpoint(doc, "destination") # "ok"
         THEN CheckEndpoint(doc, "destination")
    ELSE IF CheckTrigger(doc) # "ok" THEN CheckTrigger(doc)
    ELSE IF CheckBuild(doc) # "ok" THEN CheckBuild(doc)
    ELSE IF CheckGit(doc) # "ok" THEN CheckGit(doc)
    ELSE IF CheckControl(doc) # "ok" THEN CheckControl(doc)
    ELSE CheckDefaults(doc)

\* n[k] of lines 236-333
MainEndpoint(doc, k) ==
    LET base == [scm |-> Lit(doc, <<k, "scm">>),
                 cache |-> [kc \in {"url", "cgi", "path"} |->
                               Lit(doc, <<k, "cache", kc>>)],
                 profile |-> Lit(doc, <<k, "profile">>)]
    IN  IF k = "destination"
        THEN [scm |-> base.scm, cache |-> base.cache, profile |-> base.profile,
              mbs |-> [r \in mbs_required_configs(doc) |->
                          IF r = "auth_method" THEN <<doc.auth>>
                          ELSE Lit(doc, <<k, "mbs", r>>)]]
        ELSE base

\* n["defaults"][dk] of lines 427-432
MainDefaults(doc, dk) ==
    [dkk \in {x \in {"source", "destination"} : In(doc, <<"defaults", dk, x>>)}
        |-> Tmpl(doc, <<dk, dkk>>)]

\* n["defaults"]["modules"]["rpms"] of lines 445-466
MainDefaultsModulesRpms(doc) ==
    [dkk \in {"source", "destination"} |->
        IF In(doc, <<"defaults", "modules", "rpms", dkk>>)
        THEN Tmpl(doc, <<"modules", "rpms", dkk>>)
        ELSE MainDefaults(doc, "rpms")[dkk]]

\* the dictionary n of a document that passes ValidateMain
Main(doc) ==
    [source |-> MainEndpoint(doc, "source"),
     destination |-> MainEndpoint(doc, "destination"),
     trigger |-> [k \in {x \in Namespaces : In(doc, <<"trigger", x>>)} |->
                     Lit(doc, <<"trigger", k>>)],
     build |-> [prefix |-> Lit(doc, <<"build", "prefix">>),
                target |-> Lit(doc, <<"build", "target">>),
                platform |-> doc.platform,
                scratch |-> In(doc, <<"build", "scratch">>) /\ doc.scratch],
     git |-> [k \in {"author", "email", "message"} |-> Lit(doc, <<"git", k>>)],
     control |-> [build |-> doc.control.build,
                  merge |-> doc.control.merge,
                  strict |-> doc.control.strict,
                  exclude |-> [cns \in Namespaces |->
                      IF In(doc, <<"control", "exclude", cns>>)
                      THEN doc.exclude[cns] ELSE {}]],
     defaults |-> [cache |-> MainDefaults(doc, "cache"),
                   rpms |-> MainDefaults(doc, "rpms"),
                   modules |->
                       [x \in DOMAIN MainDefaults(doc, "modules") \cup {"rpms"} |->
                           IF x = "rpms" THEN MainDefaultsModulesRpms(doc)
                           ELSE MainDefaults(doc, "modules")[x]]]]

(***************************************************************************)
(* load_config: the components block (lines 473-542).                      *)
(***************************************************************************)
\* cnf[k] of lines 479-482, empty when the block is absent
DocComps(doc, k) ==
    IF Has(doc, <<"components", k>>) THEN doc.components[k] ELSE EmptyMap

\* the mapping of lines 491-506: cname and sname of lines 485-490
CompMapping(k, p) ==
    IF k = "modules"
    THEN ("%(component)s" :> split_module(p).name)
             @@ ("%(stream)s" :> split_module(p).stream)
    ELSE ("%(component)s" :> p) @@ ("%(stream)s" :> <<>>)

\* the mapping of lines 528-533 for the constituent cp of the module p
SubCompMapping(p, cp) ==
    ("%(component)s" :> cp) @@ ("%(name)s" :> split_module(p).name)
        @@ ("%(ref)s" :> <<"%(ref)s">>)
        @@ ("%(stream)s" :> split_module(p).stream)

\* a lookup of a missing default or an expansion naming an unknown key raises
CompKeyError(n, k, p) ==
    \/ \E ck \in {"source", "destination"} :
          \/ ck \notin DOMAIN n.defaults[k]
          \/ KeyError(n.defaults[k][ck], CompMapping(k, p))
    \/ \E ck \in {"source", "destination"} :
          \/ ck \notin DOMAIN n.defaults.cache
          \/ KeyError(n.defaults.cache[ck], CompMapping(k, p))

CompsKeyError(doc) ==
    \E k \in Namespaces : \E p \in DOMAIN DocComps(doc, k) :
        CompKeyError(Main(doc), k, p)

\* nc[k][p] of lines 484-537; e is cnf[k][p], an empty mapping when None
CompEntry(n, k, p, e) ==
    LET m == CompMapping(k, p)
        base ==
            [source |-> IF "source" \in DOMAIN e THEN e.source
                        ELSE Expand(n.defaults[k].source, m),
             destination |-> IF "destination" \in DOMAIN e THEN e.destination
                             ELSE Expand(n.defaults[k].destination, m),
             cache |-> [ck \in {"source", "destination"} |->
                           IF "cache" \in DOMAIN e /\ ck \in DOMAIN e.cache
                           THEN e.cache[ck]
                           ELSE Expand(n.defaults.cache[ck], m)]]
        subs == IF "rpms" \in DOMAIN e THEN e.rpms ELSE EmptyMap
    IN  IF k = "modules"
        THEN [source |-> base.source, destination |-> base.destination,
              cache |-> base.cache,
              rpms |-> [cp \in DOMAIN subs |->
                          [ck \in {"source", "destination"} |->
                              IF ck \in DOMAIN subs[cp] THEN subs[cp][ck]
                              ELSE Expand(n.defaults.modules.rpms[ck],
                                          SubCompMapping(p, cp))]]]
        ELSE base

\* the dictionary nc
Comps(doc) ==
    [k \in Namespaces |->
        [p \in DOMAIN DocComps(doc, k) |->
            CompEntry(Main(doc), k, p, DocComps(doc, k)[p])]]

(***************************************************************************)
(* load_config as a whole.  repo is what the configuration repository      *)
(* holds: no distrobaker.yaml ("nofile"), a file that does not parse       *)
(* ("garbage") or a document; failed is the number of clone attempts that  *)
(* fail before one succeeds.                                               *)
(***************************************************************************)
NoConfig == EmptyMap

Configured(cfg) == "main" \in DOMAIN cfg

\* the number of passes of the loop of lines 197-214
load_config_attempts(rt, failed) == IF failed < rt THEN failed + 1 ELSE rt

\* "ok" (returns c), "none" (returns None) or "raise"
load_config_status(rt, repo, failed) ==
    IF failed >= rt THEN "none"
    ELSE IF repo.kind # "doc" THEN "none"
    ELSE IF ValidateMain(repo.doc) # "ok" THEN ValidateMain(repo.doc)
    ELSE IF CompsKeyError(repo.doc) THEN "raise"
    ELSE "ok"

\* the configuration written too early: c["main"] set right after the
\* configuration block, before the components block is processed
load_config_install_early(old, repo, status) ==
    IF status = "ok"
    THEN [main |-> Main(repo.doc), comps |-> Comps(repo.doc)]
    ELSE IF status = "raise" /\ ValidateMain(repo.doc) = "ok"
         THEN ("main" :> Main(repo.doc)) @@ old
         ELSE old

\* lines 558-560: the global dictionary after the call
load_config_install(old, repo, status) ==
    IF status = "ok"
    THEN [main |-> Main(repo.doc), comps |-> Comps(repo.doc)]
    ELSE old

(***************************************************************************)
(* The documents the model draws.                                          *)
(***************************************************************************)
Platform == <<"p", ":", "8">>

CompsPlain == [rpms |-> EmptyMap, modules |-> EmptyMap]

\* one rpm listed, no module
CompsRpm == [rpms |-> (RpmA :> EmptyMap), modules |-> EmptyMap]

\* components listed without any override (the YAML value is None)
CompsListed == [rpms |-> (RpmA :> EmptyMap), modules |-> (ModM :> EmptyMap)]

CompsOverride ==
    [rpms |-> (RpmA :> [destination |-> <<"a2", ".git", "#", "main">>,
                        cache |-> [destination |-> <<"a2">>]]),
     modules |-> (ModM :> [source |-> <<"m", ".git", "#", "s1">>,
                           rpms |-> (RpmA :>
                               [destination |-> <<"ma", ".git">>])])]

FullDoc(ver, auth, platform, control, exclude, components) ==
    [missing |-> {}, ver |-> ver, auth |-> auth, platform |-> platform,
     scratch |-> TRUE, control |-> control, exclude |-> exclude,
     components |-> components]

Without(doc, S) == [doc EXCEPT !.missing = S]

Control(b, m, s) == [build |-> b, merge |-> m, strict |-> s]

NoExclude == [rpms |-> {}, modules |-> {}]

RECURSIVE KeySetsUpTo(_)
\* the sets of at most n keys
KeySetsUpTo(n) ==
    IF n = 0 THEN {{}}
    ELSE LET S == KeySetsUpTo(n - 1)
         IN  S \cup {s \cup {k} : s \in S, k \in Keys}

\* the documents load_config is applied to in SpecConfig
BaseDocs ==
    {FullDoc("v1", "kerberos", Platform, Control(TRUE, TRUE, FALSE),
             NoExclude, CompsListed),
     FullDoc("v2", "oidc", Platform, Control(FALSE, FALSE, TRUE),
             [rpms |-> {RpmB}, modules |-> {}], CompsOverride),
     FullDoc("v2", "kerberos", Platform, Control(TRUE, FALSE, FALSE),
             NoExclude, CompsPlain),
     FullDoc("v2", "basic", Platform, Control(TRUE, TRUE, TRUE),
             NoExclude, CompsPlain),
     FullDoc("v1", "kerberos", <<"p8">>, Control(TRUE, TRUE, TRUE),
             NoExclude, CompsPlain)}

ConfigRepos ==
    {[kind |-> "nofile"], [kind |-> "garbage"]}
        \cup {[kind |-> "doc", doc |-> Without(d, S)] :
                 d \in BaseDocs, S \in KeySetsUpTo(MaxMissing)}

\* the configuration a complete document installs
ConfigOf(doc) == [main |-> Main(doc), comps |-> Comps(doc)]

(***************************************************************************)
(* State outside of a call.                                                *)
(***************************************************************************)
NoFrame == [active |-> FALSE]
NoCall == [op |-> "idle"]
NoEffects ==
    [clones |-> {}, fetches |-> {}, probes |-> {}, downloads |-> {},
     uploads |-> {}, pushes |-> {}, sessions |-> {},
     syncs |-> <<>>, results |-> <<>>, builds |-> <<>>]
NoReturn == [at |-> "none"]

Roles == {"source", "destination"}

\* no session cached, no call of get_buildsys made, the clock at its origin
NoSession == [has |-> FALSE]
KojiIdle ==
    [now |-> 0, ticks |-> 0, made |-> 0, source |-> NoSession,
     destination |-> NoSession, which |-> "none", prev |-> NoSession,
     at |-> 0, log |-> <<>>, out |-> [none |-> TRUE]]

\* no run of sync_cache is being compared
PairIdle == [active |-> FALSE]

\* lc outside of load_config: only the configuration last installed is kept
LcIdle(installed) == [status |-> "idle", installed |-> installed]

PipelineIdle ==
    /\ call = NoCall
    /\ pc = "idle"
    /\ todo = <<>>
    /\ top = NoFrame
    /\ sub = NoFrame
    /\ mod = NoFrame
    /\ sc = NoFrame
    /\ attempt = 0
    /\ ret = NoReturn
    /\ fx = NoEffects

pipeline_vars == <<call, pc, todo, top, sub, mod, sc, attempt, ret, fx>>

(***************************************************************************)
(* load_config (lines 179-560).                                            *)
(***************************************************************************)
load_config(repos) ==
    /\ pc = "idle"
    /\ \E failed \in 0..retry :
         \E repo \in (IF failed >= retry THEN {[kind |-> "unfetched"]} ELSE repos) :
            LET status == load_config_status(retry, repo, failed)
            IN  /\ c' = load_config_install(c, repo, status)
                /\ lc' = [status |-> status, repo |-> repo,
                          attempts |-> load_config_attempts(retry, failed),
                          old |-> c,
                          installed |-> IF status = "ok" THEN c' ELSE lc.installed]
    /\ UNCHANGED <<retry, dry_run, sess, koji, pair>>

(***************************************************************************)
(* SpecConfig: one call of load_config on any document of ConfigRepos,     *)
(* from no configuration or from a configuration loaded before.            *)
(***************************************************************************)
StartConfigs ==
    {NoConfig} \cup {ConfigOf(d) : d \in {x \in BaseDocs :
                        x.auth # "basic" /\ x.platform = Platform}}

InitConfig ==
    /\ c \in StartConfigs
    /\ retry \in 0..MaxRetry
    /\ dry_run = FALSE
    /\ lc = LcIdle(c)
    /\ sess = [source |-> FALSE, destination |-> FALSE]
    /\ koji = KojiIdle
    /\ pair = PairIdle
    /\ PipelineIdle

ReloadConfig ==
    /\ lc.status = "idle"
    /\ load_config(ConfigRepos)
    /\ UNCHANGED pipeline_vars

NextConfig == ReloadConfig

SpecConfig == InitConfig /\ [][NextConfig]_vars

(***************************************************************************)
(* The remote world: what the source build system, the repositories and    *)
(* the lookaside caches can answer.                                        *)
(***************************************************************************)
\* "{}-{}-{}".format(name, version, release)
Nvr(name, version, release) ==
    name \o <<"-">> \o version \o <<"-">> \o release

\* "{}:{}".format(name, stream)
NameStream(name, stream) == name \o <<":">> \o stream

\* "{}#{}".format(link, ref)
LinkRef(link, ref) == link \o <<"#">> \o ref

\* module metadata documents: what Modulemd.read_packager_string makes of
\* them ("v2" a ModuleStreamV2, "v1" another type, "invalid" an exception),
\* and their rpm and module component names
Mmds ==
    {[kind |-> "v2", rpms |-> <<RpmA, RpmB>>, modules |-> <<>>],
     [kind |-> "v2", rpms |-> <<RpmA>>, modules |-> <<<<"n">>>>],
     [kind |-> "v2", rpms |-> <<>>, modules |-> <<>>],
     [kind |-> "v1", rpms |-> <<>>, modules |-> <<>>],
     [kind |-> "invalid", rpms |-> <<>>, modules |-> <<>>]}

NoMmd == [kind |-> "none"]

\* the module metadata of a build whose content is drawn when
\* sync_module_components reads it
BuildMmd == [kind |-> "build"]

\* the constituents a parsed module document lists
Constituents(mmd) ==
    {mmd.rpms[i] : i \in 1..Len(mmd.rpms)}
        \cup {mmd.modules[i] : i \in 1..Len(mmd.modules)}

\* the repository, cache and ref a module document gives for constituent mc
CompInfo(mc) ==
    [repository |-> <<"git", "/", "rpms", "/">> \o mc,
     cache |-> <<"lookaside">>,
     ref |-> IF mc = RpmA THEN <<"stream.1">> ELSE None]

\* the answers of getBuild(nvr) of the source build system
GetBuildResponses(cfg, nvr) ==
    {[kind |-> "raise"], [kind |-> "nosource"]}
    \cup (IF nvr[1] = "m"
          THEN {[kind |-> "build",
                 source |-> cfg.main.source.scm
                     \o <<"/", "modules", "/", "m", ".git", "?", "#", "c0ffee">>,
                 module |-> [name |-> name, stream |-> <<"1">>, modulemd_str |-> mmd]] :
                    mmd \in Mmds, name \in {<<"m">>, <<"m-devel">>}}
          ELSE {[kind |-> "build",
                 source |-> cfg.main.source.scm
                     \o <<"/", "rpms", "/", nvr[1], ".git", "#", "c0ffee">>]})

\* entries of sources files
E1 == <<<<"f1.tar">>, <<"h1">>, "sha512">>
E2 == <<<<"f2.tar">>, <<"h2">>, "md5">>

\* what parse_sources (lines 136-173) can give, when it gives a set, for the
\* destination tree and for the merged tree
DestinationSources == {{E1}}
MergedSources == {{E1}, {E1, E2}}

\* the commit id repo.git.rev_parse("HEAD") gives after the sync of comp
HeadOf(comp) == <<"head.">> \o comp

(***************************************************************************)
(* get_buildsys (lines 1984-2052), by its outcome: ok is whether a session *)
(* is returned, opened whether a new session was created.  Whether a       *)
(* cached session has aged out is the environment's choice.                *)
(***************************************************************************)
get_buildsys_outcomes(cached) ==
    (IF cached THEN {[ok |-> TRUE, opened |-> FALSE]} ELSE {})
        \cup {[ok |-> TRUE, opened |-> TRUE], [ok |-> FALSE, opened |-> TRUE]}

\* the session cache after the call
SessAfter(s, which, o) == [s EXCEPT ![which] = @ \/ o.ok]

Opened(f, which, o) ==
    IF o.opened THEN [f EXCEPT !.sessions = @ \cup {which}] ELSE f

(***************************************************************************)
(* get_build_info (lines 1838-1886): bi, or None.                          *)
(***************************************************************************)
NoInfo == [none |-> TRUE]

get_build_info_of(resp) ==
    IF resp.kind # "build" THEN NoInfo
    ELSE IF "module" \in DOMAIN resp
         THEN [none |-> FALSE, scmurl |-> resp.source,
               name |-> resp.module.name, stream |-> resp.module.stream,
               modulemd |-> resp.module.modulemd_str]
         ELSE [none |-> FALSE, scmurl |-> resp.source,
               name |-> None, stream |-> None, modulemd |-> NoMmd]

\* the pairs of a get_buildsys outcome and the value get_build_info returns
get_build_info_outcomes(cfg, s, nvr) ==
    {[gb |-> o, bi |-> NoInfo] :
        o \in {x \in get_buildsys_outcomes(s.source) : ~x.ok}}
    \cup {[gb |-> o, bi |-> get_build_info_of(r)] :
            o \in {x \in get_buildsys_outcomes(s.source) : x.ok},
            r \in GetBuildResponses(cfg, nvr)}

(***************************************************************************)
(* URL resolution of sync_repo (lines 1108-1176) and the cache names of    *)
(* sync_cache (lines 1328-1333).                                           *)
(***************************************************************************)
HasHash(t) == \E i \in 1..Len(t) : t[i] = "#"

sync_repo_urls(cfg, ns, comp, cmodule, bref) ==
    LET cname == IF ns = "modules" THEN split_module(comp).name ELSE comp
        sname == IF ns = "modules" THEN split_module(comp).stream ELSE <<>>
        m2 == ("%(component)s" :> cname) @@ ("%(stream)s" :> sname)
        urls(csrc, cdst) ==
            LET sscm == split_scmurl(Join3(cfg.main.source.scm, <<ns>>, csrc))
                dscm == split_scmurl(Join3(cfg.main.destination.scm, <<ns>>, cdst))
            IN  [status |-> "ok", sscm |-> sscm,
                 dscm |-> [dscm EXCEPT !.ref = IF Truthy(@) THEN @ ELSE <<"master">>]]
    IN  IF Truthy(cmodule)
        THEN IF ns = "modules"
             THEN [status |-> "none"]
             ELSE LET over == /\ cmodule \in DOMAIN cfg.comps.modules
                              /\ comp \in DOMAIN cfg.comps.modules[cmodule][ns]
                      csrc == IF over
                              THEN cfg.comps.modules[cmodule][ns][comp].source
                              ELSE cfg.main.defaults.modules[ns].source
                      cdst == IF over
                              THEN cfg.comps.modules[cmodule][ns][comp].destination
                              ELSE cfg.main.defaults.modules[ns].destination
                      withref(t) == IF HasHash(t) THEN t ELSE t \o <<"#", "%(ref)s">>
                      cms == split_module(cmodule)
                      m4 == ("%(component)s" :> cname) @@ ("%(name)s" :> cms.name)
                               @@ ("%(ref)s" :> bref) @@ ("%(stream)s" :> cms.stream)
                  IN  urls(Expand(withref(csrc), m4), Expand(withref(cdst), m4))
        ELSE IF comp \in DOMAIN cfg.comps[ns]
             THEN urls(cfg.comps[ns][comp].source, cfg.comps[ns][comp].destination)
             ELSE IF \/ KeyError(cfg.main.defaults[ns].source, m2)
                     \/ KeyError(cfg.main.defaults[ns].destination, m2)
                  THEN [status |-> "raise"]
                  ELSE urls(Expand(cfg.main.defaults[ns].source, m2),
                            Expand(cfg.main.defaults[ns].destination, m2))

sync_cache_names(cfg, ns, comp) ==
    IF comp \in DOMAIN cfg.comps[ns]
    THEN [status |-> "ok",
          scname |-> cfg.comps[ns][comp].cache.source,
          dcname |-> cfg.comps[ns][comp].cache.destination]
    ELSE IF KeyError(cfg.main.defaults.cache.source, "%(component)s" :> comp)
         THEN [status |-> "raise"]
         ELSE [status |-> "ok",
               scname |-> Expand(cfg.main.defaults.cache.source,
                                 "%(component)s" :> comp),
               dcname |-> Expand(cfg.main.defaults.cache.source,
                                 "%(component)s" :> comp)]

\* everything sync_repo and sync_cache resolve for a dispatched component
Resolve(cfg, ns, comp) ==
    [urls |-> sync_repo_urls(cfg, ns, comp, None, <<"master">>),
     cache |-> sync_cache_names(cfg, ns, comp)]

(***************************************************************************)
(* Frames.                                                                 *)
(***************************************************************************)
NoScm == [link |-> None, ref |-> None, ns |-> None, comp |-> None]

\* a sync_repo that pushes whoever owns the directory
sync_repo_pushrepo_always(gitdir) == TRUE

\* lines 1178-1189: sync_repo pushes only from a directory of its own
sync_repo_pushrepo(gitdir) == ~gitdir

\* a loop that makes one more pass than retry allows
range_retry_inclusive(n, rt) == n <= rt

\* a loop that always has a pass left
range_retry_forever(n, rt) == TRUE

\* for attempt in range(retry): whether the loop has a pass left after n
\* passes
range_retry(n, rt) == n < rt

\* the arguments and locals of a sync_repo call; gitdir is whether the
\* caller supplied a directory; done collects the steps that succeeded,
\* mcomps the rpm constituents the module document listed,
\* unpushed the constituents sync_module_components returned True without
\* having pushed, srcdiff the entries handed to sync_cache and cached how
\* each was handled when sync_cache returned their number
Frame(ns, comp, nvr, gitdir, cmodule, scmurl, bcache) ==
    [active |-> TRUE, ns |-> ns, comp |-> comp, nvr |-> nvr, gitdir |-> gitdir,
     cmodule |-> cmodule, scmurl |-> scmurl, bcache |-> bcache,
     bscmurl |-> None, bmmd |-> NoMmd, bscm |-> NoScm, sscm |-> NoScm,
     dscm |-> NoScm, pushrepo |-> FALSE, dsrc |-> {}, done |-> {},
     unpushed |-> {}, mcomps |-> {}, srcdiff |-> {}, cached |-> {},
     result |-> None]

\* the frame being executed: the constituent's while one is synchronized
F == IF sub.active THEN sub ELSE top

SetF(f) ==
    IF sub.active THEN sub' = f /\ top' = top ELSE top' = f /\ sub' = sub

Did(f, step) == [f EXCEPT !.done = @ \cup {step}]

\* return from sync_repo with value v
SrReturn(v) == SetF([F EXCEPT !.result = v]) /\ pc' = "sr_return"

\* an exception that nothing catches ends the entry point
Raise == pc' = "raised"

globals == <<c, retry, dry_run>>

\* a step that switches the builds off in the shared dictionary
Step_writes_config ==
    /\ c' = IF Configured(c) THEN [c EXCEPT !.main.control.build = FALSE] ELSE c
    /\ UNCHANGED <<retry, dry_run, lc, koji, pair>>

\* no function but load_config, retries and pretend declares a global:
\* every other step leaves c, retry and dry_run alone
Step == UNCHANGED <<globals, koji, pair, lc>>

(***************************************************************************)
(* sync_repo (lines 1017-1276).                                            *)
(***************************************************************************)
\* lines 1191-1276: the steps of sync_repo, in the order of the code
sync_repo_steps ==
    <<"clone", "fetch", "configure", "dsrc", "strategy", "ssrc", "cache",
      "modules", "push">>

\* the steps with the fetch left out after the clone
sync_repo_after_clone_configure(step) ==
    IF step = "clone" THEN "configure"
    ELSE sync_repo_steps[1 + CHOOSE i \in 1..Len(sync_repo_steps) :
                                sync_repo_steps[i] = step]

\* the step sync_repo goes to when step has succeeded
sync_repo_after(step) ==
    sync_repo_steps[1 + CHOOSE i \in 1..Len(sync_repo_steps) :
                            sync_repo_steps[i] = step]

\* a pull that failed taken for one that succeeded
sync_repo_ignores_failure(step) ==
    IF step = "strategy"
    THEN UNCHANGED <<top, sub>> /\ pc' = sync_repo_after(step)
    ELSE SrReturn(None)

\* lines 1192-1234: sync_repo returns None when step has failed
sync_repo_abort(step) == SrReturn(None)

\* the exclusion check, were it made for modules alone
sync_repo_excluded_modules(cfg, ns, comp) ==
    ns = "modules" /\ comp \in cfg.main.control.exclude[ns]

\* lines 1052-1056: the exclusion check of sync_repo; none, were it left out
sync_repo_unguarded(cfg, ns, comp) == FALSE

sync_repo_excluded(cfg, ns, comp) == comp \in cfg.main.control.exclude[ns]

\* lines 1049-1062
sync_repo_guard ==
    /\ pc = "sync_repo"
    /\ IF ~Configured(c) \/ sync_repo_excluded(c, F.ns, F.comp)
       THEN SrReturn(None)
       ELSE IF Truthy(F.scmurl)
            THEN /\ SetF([F EXCEPT !.bscmurl = F.scmurl])
                 /\ pc' = "sr_resolve"
            ELSE /\ UNCHANGED <<top, sub>>
                 /\ pc' = IF Truthy(F.nvr) THEN "sr_get_build_info"
                                           ELSE "sr_get_build"
    /\ Step
    /\ UNCHANGED <<sess, call, todo, mod, sc, attempt, ret, fx>>

(***************************************************************************)
(* get_build (lines 1889-1981).                                            *)
(***************************************************************************)
ModNvrs == {Nvr(<<"m">>, <<"1">>, <<"r1">>), Nvr(<<"m">>, <<"1">>, <<"r2">>)}

RECURSIVE ListsUpTo(_)
\* the lists of at most n distinct module builds, oldest tagging first
ListsUpTo(n) ==
    IF n = 0 THEN {<<>>}
    ELSE LET S == ListsUpTo(n - 1)
         IN  S \cup {Append(l, x) : l \in S, x \in ModNvrs}

TaggedLists ==
    {l \in ListsUpTo(MaxTagged) :
        \A i, j \in 1..Len(l) : i # j => l[i] # l[j]}

\* the name and stream of what get_build_info can return for a build
BuildNames(cfg, nvr) ==
    {IF get_build_info_of(r).none THEN NoInfo
     ELSE [none |-> FALSE, name |-> get_build_info_of(r).name,
           stream |-> get_build_info_of(r).stream] :
        r \in GetBuildResponses(cfg, nvr)}

\* an exception of listTagged
TaggedRaise == [kind |-> "raise"]

\* the answers of listTagged(trigger.modules) with the name and stream
\* get_build_info returns for each build of the answer
TaggedModules(cfg) ==
    UNION {{[kind |-> "list", builds |-> l, infos |-> i] :
              i \in {f \in [1..Len(l) -> UNION {BuildNames(cfg, x) : x \in ModNvrs}] :
                        \A k \in 1..Len(l) : f[k] \in BuildNames(cfg, l[k])}} :
           l \in TaggedLists}

\* the answers of listTagged(trigger.rpms, package=comp, latest=True)
TaggedRpms(comp) ==
    {[kind |-> "list", builds |-> <<>>],
     [kind |-> "list", builds |-> <<[nvr |-> Nvr(comp, <<"1">>, <<"1">>)]>>]}

Unnamed(bi) == bi.none \/ bi.name = None \/ bi.stream = None

RECURSIVE latest_build_of_name(_, _, _, _, _)
\* the loop, were the stream not compared
latest_build_of_name(cname, sname, t, i, latest) ==
    IF i > Len(t.builds) THEN latest
    ELSE latest_build_of_name(cname, sname, t, i + 1,
            IF ~Unnamed(t.infos[i]) /\ cname = t.infos[i].name
            THEN t.builds[i] ELSE latest)

RECURSIVE latest_build(_, _, _, _, _)
\* lines 1958-1971: the loop over builds from index i on
latest_build(cname, sname, t, i, latest) ==
    IF i > Len(t.builds) THEN latest
    ELSE latest_build(cname, sname, t, i + 1,
            IF ~Unnamed(t.infos[i]) /\ cname = t.infos[i].name
                                   /\ sname = t.infos[i].stream
            THEN t.builds[i] ELSE latest)

\* what get_build returns for the namespace modules (lines 1933-1978); t is
\* the answer of listTagged
get_build_modules(comp, t) ==
    IF t.kind = "raise" THEN None
    ELSE IF t.builds = <<>> THEN None
    ELSE latest_build(split_module(comp).name, split_module(comp).stream,
                      t, 1, None)

\* what get_build returns for the namespace rpms (lines 1910-1931); t is
\* the answer of listTagged
get_build_rpms(t) ==
    IF t.kind = "raise" THEN None
    ELSE IF t.builds # <<>> THEN t.builds[1].nvr
    ELSE None

\* the pairs of a get_buildsys outcome and the value get_build returns
get_build_outcomes(cfg, s, ns, comp) ==
    {[gb |-> o, nvr |-> None] :
        o \in {x \in get_buildsys_outcomes(s.source) : ~x.ok}}
    \cup {[gb |-> o, nvr |-> v] :
            o \in {x \in get_buildsys_outcomes(s.source) : x.ok},
            v \in IF ns = "rpms"
                  THEN {get_build_rpms(t) : t \in {TaggedRaise} \cup TaggedRpms(comp)}
                  ELSE {get_build_modules(comp, t) :
                           t \in {TaggedRaise} \cup TaggedModules(cfg)}}

(***************************************************************************)
(* sync_repo, continued.                                                   *)
(***************************************************************************)
\* lines 1064-1071
sr_get_build ==
    /\ pc = "sr_get_build"
    /\ \E o \in get_build_outcomes(c, sess, F.ns, F.comp) :
          /\ sess' = SessAfter(sess, "source", o.gb)
          /\ fx' = Opened(fx, "source", o.gb)
          /\ IF o.nvr = None
             THEN SrReturn(None)
             ELSE SetF([F EXCEPT !.nvr = o.nvr]) /\ pc' = "sr_get_build_info"
    /\ Step
    /\ UNCHANGED <<call, todo, mod, sc, attempt, ret>>

\* lines 1072-1082
sr_get_build_info ==
    /\ pc = "sr_get_build_info"
    /\ \E o \in get_build_info_outcomes(c, sess, F.nvr) :
          /\ sess' = SessAfter(sess, "source", o.gb)
          /\ fx' = Opened(fx, "source", o.gb)
          /\ IF o.bi.none
             THEN SrReturn(None)
             ELSE /\ SetF([F EXCEPT !.bscmurl = o.bi.scmurl,
                                    !.bmmd = IF o.bi.modulemd = NoMmd
                                             THEN NoMmd ELSE BuildMmd])
                  /\ pc' = "sr_resolve"
    /\ Step
    /\ UNCHANGED <<call, todo, mod, sc, attempt, ret>>

\* lines 1084-1189
sr_resolve ==
    /\ pc = "sr_resolve"
    /\ LET bscm0 == split_scmurl(F.bscmurl)
           bscm == [bscm0 EXCEPT !.ref = IF Truthy(@) THEN @ ELSE <<"master">>]
           nvr == IF Truthy(F.cmodule) /\ F.nvr = None
                  THEN NameStream(F.comp, bscm.ref) ELSE F.nvr
           u == sync_repo_urls(c, F.ns, F.comp, F.cmodule, bscm.ref)
       IN  IF u.status = "none" THEN SrReturn(None)
           ELSE IF u.status = "raise" THEN Raise /\ UNCHANGED <<top, sub>>
           ELSE /\ SetF([F EXCEPT !.bscm = bscm, !.nvr = nvr, !.sscm = u.sscm,
                                  !.dscm = u.dscm, !.pushrepo = sync_repo_pushrepo(F.gitdir)])
                /\ pc' = "clone"
    /\ attempt' = 0
    /\ Step
    /\ UNCHANGED <<sess, call, todo, mod, sc, ret, fx>>

\* clone_destination_repo (lines 563-599) and lines 1191-1196
clone_destination_repo ==
    /\ pc = "clone"
    /\ IF range_retry(attempt, retry)
       THEN \E ok \in BOOLEAN :
              /\ fx' = [fx EXCEPT !.clones = @ \cup {<<F.ns, F.comp>>}]
              /\ IF ok
                 THEN /\ SetF(Did(F, "clone"))
                      /\ pc' = sync_repo_after("clone")
                      /\ attempt' = 0
                 ELSE UNCHANGED <<top, sub, pc>> /\ attempt' = attempt + 1
       ELSE sync_repo_abort("clone") /\ attempt' = 0 /\ fx' = fx
    /\ Step
    /\ UNCHANGED <<sess, call, todo, mod, sc, ret>>

\* fetch_upstream_repo (lines 602-644) and lines 1198-1202
fetch_upstream_repo ==
    /\ pc = "fetch"
    /\ IF range_retry(attempt, retry)
       THEN \E ok \in BOOLEAN :
              /\ fx' = [fx EXCEPT !.fetches = @ \cup {<<F.ns, F.comp>>}]
              /\ IF ok
                 THEN /\ SetF(Did(F, "fetch"))
                      /\ pc' = sync_repo_after("fetch")
                      /\ attempt' = 0
                 ELSE UNCHANGED <<top, sub, pc>> /\ attempt' = attempt + 1
       ELSE sync_repo_abort("fetch") /\ attempt' = 0 /\ fx' = fx
    /\ Step
    /\ UNCHANGED <<sess, call, todo, mod, sc, ret>>

\* configure_repo (lines 647-669) and lines 1204-1210
configure_repo ==
    /\ pc = "configure"
    /\ \E ok \in BOOLEAN :
          IF ok THEN SetF(Did(F, "configure")) /\ pc' = sync_repo_after("configure")
          ELSE sync_repo_abort("configure")
    /\ Step
    /\ UNCHANGED <<sess, call, todo, mod, sc, attempt, ret, fx>>

\* lines 1212-1221: the destination manifest
parse_destination_sources ==
    /\ pc = "dsrc"
    /\ \/ sync_repo_abort("dsrc")
       \/ \E d \in DestinationSources :
             /\ SetF([Did(F, "dsrc") EXCEPT !.dsrc = d])
             /\ pc' = sync_repo_after("dsrc")
    /\ Step
    /\ UNCHANGED <<sess, call, todo, mod, sc, attempt, ret, fx>>

\* sync_repo_merge (lines 672-789) and lines 1223-1228; the loop that
\* looks for an unused branch name makes at most retry passes
sync_repo_merge ==
    /\ pc = "strategy"
    /\ c.main.control.merge
    /\ \E ok \in BOOLEAN :
          IF ok /\ retry > 0
          THEN SetF(Did(F, "strategy")) /\ pc' = sync_repo_after("strategy")
          ELSE sync_repo_abort("strategy")
    /\ Step
    /\ UNCHANGED <<sess, call, todo, mod, sc, attempt, ret, fx>>

\* sync_repo_pull (lines 792-817) and lines 1229-1234
sync_repo_pull ==
    /\ pc = "strategy"
    /\ ~c.main.control.merge
    /\ \E ok \in BOOLEAN :
          IF ok THEN SetF(Did(F, "strategy")) /\ pc' = sync_repo_after("strategy")
          ELSE sync_repo_abort("strategy")
    /\ Step
    /\ UNCHANGED <<sess, call, todo, mod, sc, attempt, ret, fx>>

(***************************************************************************)
(* sync_cache (lines 1279-1423).                                           *)
(***************************************************************************)
\* the arguments and locals of a sync_cache call; todo holds the entries the
\* loop has not finished, handled the finished ones with how they finished
ScFrame(ns, comp, sources) ==
    [active |-> TRUE, ns |-> ns, comp |-> comp, sources |-> sources,
     todo |-> sources, cur |-> <<>>, scname |-> None, dcname |-> None,
     handled |-> {}, result |-> [none |-> TRUE]]

\* return from sync_cache with value v
ScReturn(v) == sc' = [sc EXCEPT !.result = v] /\ pc' = "sc_return"

\* lines 1237-1255: the merged manifest, the difference, the call of
\* sync_cache
parse_source_sources ==
    /\ pc = "ssrc"
    /\ \/ SrReturn(None) /\ sc' = sc
       \/ \E ssrc \in MergedSources :
             LET srcdiff == ssrc \ F.dsrc
             IN  IF srcdiff # {}
                 THEN /\ SetF([Did(F, "ssrc") EXCEPT !.dsrc = {},
                                                     !.srcdiff = srcdiff])
                      /\ sc' = ScFrame(F.ns, F.comp, srcdiff)
                      /\ pc' = "sync_cache"
                 ELSE /\ SetF([Did(Did(F, "ssrc"), "cache") EXCEPT !.dsrc = {}])
                      /\ sc' = sc
                      /\ pc' = sync_repo_after("cache")
    /\ Step
    /\ UNCHANGED <<sess, call, todo, mod, attempt, ret, fx>>

\* lines 1291-1333
sync_cache_guard ==
    /\ pc = "sync_cache"
    /\ IF ~Configured(c) THEN ScReturn([none |-> TRUE])
       ELSE IF sc.comp \in c.main.control.exclude[sc.ns]
       THEN ScReturn([none |-> TRUE])
       ELSE LET n == sync_cache_names(c, sc.ns, sc.comp)
            IN  IF n.status = "raise" THEN Raise /\ sc' = sc
                ELSE /\ sc' = [sc EXCEPT !.scname = n.scname,
                                         !.dcname = n.dcname]
                     /\ pc' = "sc_loop"
    /\ Step
    /\ UNCHANGED <<sess, call, todo, top, sub, mod, attempt, ret, fx>>

\* lines 1334-1336 and 1423: the next entry of the set, or the return
sync_cache_loop ==
    /\ pc = "sc_loop"
    /\ IF sc.todo = {}
       THEN ScReturn([none |-> FALSE, n |-> Cardinality(sc.sources)])
       ELSE \E s \in sc.todo :
               sc' = [sc EXCEPT !.cur = s] /\ pc' = "sc_attempt"
    /\ attempt' = 0
    /\ Step
    /\ UNCHANGED <<sess, call, todo, top, sub, mod, ret, fx>>

\* the remote operations of one pass of the attempt loop
CacheOp(path) == [ns |-> sc.ns, comp |-> sc.comp, path |-> path, file |-> sc.cur[1]]

\* line 1367: whether the downloaded file is uploaded; always, were the
\* mode ignored
sync_cache_uploads_always(dry) == TRUE

sync_cache_uploads(dry) == ~dry

\* an entry that could not be handled skipped, as the message of line 1415
\* says
sync_cache_skips_entry ==
    /\ sc' = [sc EXCEPT !.todo = @ \ {sc.cur}]
    /\ pc' = "sc_loop"

\* the attempts for an entry started over once they are exhausted
sync_cache_starts_over == UNCHANGED <<sc, pc>>

\* lines 1414-1422: the attempts for an entry are exhausted
sync_cache_exhausted == ScReturn([none |-> TRUE])

\* what the lookaside caches answer during one pass: the probe raises, the
\* file is present, the download raises, the upload raises, or all goes well
CacheResponses ==
    {"probe_raise", "present", "download_raise", "upload_raise", "uploaded"}

\* one pass, were the file uploaded whether or not its download raised
sync_cache_pass_uploads_anyway(dry, r) ==
    CASE r = "probe_raise" ->
            [ops |-> <<"probe">>, raised |-> TRUE, how |-> "none"]
      [] r = "present" ->
            [ops |-> <<"probe">>, raised |-> FALSE, how |-> "present"]
      [] OTHER ->
            IF ~dry
            THEN [ops |-> <<"probe", "download", "upload">>,
                  raised |-> r # "uploaded",
                  how |-> IF r = "uploaded" THEN "uploaded" ELSE "none"]
            ELSE [ops |-> <<"probe", "download">>,
                  raised |-> r = "download_raise",
                  how |-> IF r = "download_raise" THEN "none" ELSE "downloaded"]

\* one pass, were the dry run to stop short of the download
sync_cache_pass_probe_only(dry, r) ==
    CASE r = "probe_raise" ->
            [ops |-> <<"probe">>, raised |-> TRUE, how |-> "none"]
      [] r = "present" ->
            [ops |-> <<"probe">>, raised |-> FALSE, how |-> "present"]
      [] dry ->
            [ops |-> <<"probe">>, raised |-> FALSE, how |-> "downloaded"]
      [] r = "download_raise" ->
            [ops |-> <<"probe", "download">>, raised |-> TRUE, how |-> "none"]
      [] OTHER ->
            [ops |-> <<"probe", "download", "upload">>,
             raised |-> r = "upload_raise",
             how |-> IF r = "upload_raise" THEN "none" ELSE "uploaded"]

\* lines 1338-1399: the remote operations of one pass under the answer r,
\* whether the pass raised, and how the entry was dealt with if it did not
sync_cache_pass(dry, r) ==
    CASE r = "probe_raise" ->
            [ops |-> <<"probe">>, raised |-> TRUE, how |-> "none"]
      [] r = "present" ->
            [ops |-> <<"probe">>, raised |-> FALSE, how |-> "present"]
      [] r = "download_raise" ->
            [ops |-> <<"probe", "download">>, raised |-> TRUE, how |-> "none"]
      [] OTHER ->
            IF sync_cache_uploads(dry)
            THEN [ops |-> <<"probe", "download", "upload">>,
                  raised |-> r = "upload_raise",
                  how |-> IF r = "upload_raise" THEN "none" ELSE "uploaded"]
            ELSE [ops |-> <<"probe", "download">>, raised |-> FALSE,
                  how |-> "downloaded"]

\* lines 1337-1422: one pass of the attempt loop for the entry sc.cur, the
\* caches answering r
sync_cache_attempt_on(r) ==
    /\ pc = "sc_attempt"
    /\ IF ~range_retry(attempt, retry)
       THEN sync_cache_exhausted /\ attempt' = 0 /\ fx' = fx
       ELSE LET p == sync_cache_pass(dry_run, r)
                did(op) == \E i \in 1..Len(p.ops) : p.ops[i] = op
            IN  /\ fx' = [fx EXCEPT
                           !.probes = @ \cup {CacheOp(sc.dcname)},
                           !.downloads = IF did("download")
                                         THEN @ \cup {CacheOp(sc.scname)} ELSE @,
                           !.uploads = IF did("upload")
                                       THEN @ \cup {CacheOp(sc.dcname)} ELSE @]
                /\ IF p.raised
                   THEN /\ attempt' = attempt + 1
                        /\ UNCHANGED <<sc, pc>>
                   ELSE /\ attempt' = 0
                        /\ sc' = [sc EXCEPT !.todo = @ \ {sc.cur},
                                            !.handled = @ \cup {<<sc.cur, p.how>>}]
                        /\ pc' = "sc_loop"
    /\ Step
    /\ UNCHANGED <<sess, call, todo, top, sub, mod, ret>>

sync_cache_attempt == \E r \in CacheResponses : sync_cache_attempt_on(r)

\* the return of sync_cache to its caller: sync_repo (lines 1249-1253) or
\* the caller of the library; the record of the cache operations covers one
\* call of sync_cache
sync_cache_return ==
    /\ pc = "sc_return"
    /\ IF call.op = "sync_cache"
       THEN /\ ret' = [at |-> "sync_cache", value |-> sc.result]
            /\ pc' = "done"
            /\ UNCHANGED <<top, sub>>
       ELSE /\ ret' = ret
            /\ IF sc.result.none THEN SrReturn(None)
               ELSE /\ SetF([Did(F, "cache") EXCEPT !.cached = sc.handled])
                    /\ pc' = sync_repo_after("cache")
    /\ sc' = NoFrame
    /\ fx' = [fx EXCEPT !.probes = {}, !.downloads = {}, !.uploads = {}]
    /\ Step
    /\ UNCHANGED <<sess, call, todo, mod, attempt>>

(***************************************************************************)
(* repo_push (lines 820-863): one pass of the attempt loop, which pushes   *)
(* with --dry-run exactly when dry_run is set.                             *)
(***************************************************************************)
repo_push_live(ns, comp, dscm, ok) ==
    fx' = [fx EXCEPT !.pushes = @ \cup
              {[ns |-> ns, comp |-> comp, ref |-> dscm.ref, dry |-> FALSE]}]

repo_push(ns, comp, dscm, ok) ==
    fx' = [fx EXCEPT !.pushes = @ \cup
              {[ns |-> ns, comp |-> comp, ref |-> dscm.ref, dry |-> dry_run]}]

(***************************************************************************)
(* sync_module_components (lines 866-1014).                                *)
(***************************************************************************)
\* the arguments and locals of a sync_module_components call; i is the
\* position of the loop being executed, scmurls what sync_repo returned for
\* the constituents synchronized so far, pushed the constituents whose push
\* succeeded
ModFrame(comp, nvr, modulemd) ==
    [active |-> TRUE, comp |-> comp, nvr |-> nvr, modulemd |-> modulemd,
     i |-> 1, scmurls |-> <<>>, pushed |-> {}, result |-> FALSE]

SmcReturn(v) == mod' = [mod EXCEPT !.result = v] /\ pc' = "smc_return"

\* lines 1259-1266 of sync_repo: modules are expanded, rpms are not
sync_repo_expand ==
    /\ pc = "modules"
    /\ IF F.ns = "modules"
       THEN /\ mod' = ModFrame(F.comp, F.nvr, F.bmmd)
            /\ pc' = "smc"
            /\ UNCHANGED <<top, sub>>
       ELSE /\ mod' = mod
            /\ SetF(Did(F, "modules"))
            /\ pc' = sync_repo_after("modules")
    /\ Step
    /\ UNCHANGED <<sess, call, todo, sc, attempt, ret, fx>>

\* lines 891-912: the pairs of a get_buildsys outcome and the module
\* metadata getBuild(nvr) gives
module_info_outcomes(cfg, s, nvr) ==
    {[gb |-> o, bi |-> NoInfo] :
        o \in {x \in get_buildsys_outcomes(s.source) : ~x.ok}}
    \cup {[gb |-> o,
           bi |-> IF r.kind = "build" /\ "module" \in DOMAIN r
                  THEN [none |-> FALSE, modulemd |-> r.module.modulemd_str]
                  ELSE NoInfo] :
            o \in {x \in get_buildsys_outcomes(s.source) : x.ok},
            r \in GetBuildResponses(cfg, nvr)}

\* lines 876-919: the guards, the retrieval of the module metadata when the
\* caller has none, and its parsing
sync_module_components_entry ==
    /\ pc = "smc"
    /\ IF ~Configured(c) \/ mod.nvr = None
       THEN SmcReturn(FALSE) /\ UNCHANGED <<sess, fx>>
       ELSE \E o \in IF mod.modulemd = NoMmd
                     THEN module_info_outcomes(c, sess, mod.nvr)
                     ELSE {[bi |-> [none |-> FALSE, modulemd |-> m]] : m \in Mmds} :
              /\ IF mod.modulemd = NoMmd
                 THEN /\ sess' = SessAfter(sess, "source", o.gb)
                      /\ fx' = Opened(fx, "source", o.gb)
                 ELSE UNCHANGED <<sess, fx>>
              /\ IF o.bi.none THEN SmcReturn(FALSE)
                 ELSE IF o.bi.modulemd = NoMmd THEN SmcReturn(FALSE)
                 ELSE IF o.bi.modulemd.kind = "invalid" THEN Raise /\ mod' = mod
                 ELSE IF o.bi.modulemd.kind # "v2" THEN SmcReturn(FALSE)
                 ELSE /\ mod' = [mod EXCEPT !.modulemd = o.bi.modulemd]
                      /\ pc' = "smc_rpms"
    /\ Step
    /\ UNCHANGED <<call, todo, top, sub, sc, attempt, ret>>

\* lines 924-960: the next rpm constituent is handed to sync_repo with a
\* directory of its own, the module as cmodule and the repository, ref and
\* cache of the module document
sync_module_components_rpms ==
    /\ pc = "smc_rpms"
    /\ IF mod.i > Len(mod.modulemd.rpms)
       THEN /\ pc' = "smc_modules"
            /\ sub' = sub
       ELSE LET mc == mod.modulemd.rpms[mod.i]
                ci == CompInfo(mc)
                cscmurl == IF ci.ref # None THEN LinkRef(ci.repository, ci.ref)
                           ELSE ci.repository
            IN  /\ sub' = Frame("rpms", mc, None, TRUE, mod.comp, cscmurl, ci.cache)
                /\ pc' = "sync_repo"
    /\ Step
    /\ UNCHANGED <<sess, call, todo, top, mod, sc, attempt, ret, fx>>

\* the module components passed over and the rpm constituents pushed
sync_module_components_modules_skipped ==
    /\ pc = "smc_modules"
    /\ mod' = [mod EXCEPT !.i = 1]
    /\ pc' = "smc_push"
    /\ attempt' = 0
    /\ Step
    /\ UNCHANGED <<sess, call, todo, top, sub, sc, ret, fx>>

\* lines 969-998: a module with module constituents returns True here,
\* before the pushes
sync_module_components_modules ==
    /\ pc = "smc_modules"
    /\ IF mod.modulemd.modules # <<>>
       THEN SmcReturn(TRUE)
       ELSE mod' = [mod EXCEPT !.i = 1] /\ pc' = "smc_push"
    /\ attempt' = 0
    /\ Step
    /\ UNCHANGED <<sess, call, todo, top, sub, sc, ret, fx>>

\* lines 1000-1014: the constituents are pushed in the order they were
\* synchronized, each with the attempts of repo_push
sync_module_components_push ==
    /\ pc = "smc_push"
    /\ IF mod.i > Len(mod.scmurls)
       THEN SmcReturn(TRUE) /\ UNCHANGED <<attempt, fx>>
       ELSE IF ~range_retry(attempt, retry)
       THEN SmcReturn(FALSE) /\ attempt' = 0 /\ fx' = fx
       ELSE \E ok \in BOOLEAN :
              /\ repo_push("rpms", mod.modulemd.rpms[mod.i],
                           split_scmurl(mod.scmurls[mod.i]), ok)
              /\ IF ok
                 THEN /\ mod' = [mod EXCEPT !.i = @ + 1,
                                   !.pushed = @ \cup {mod.modulemd.rpms[mod.i]}]
                      /\ attempt' = 0
                 ELSE mod' = mod /\ attempt' = attempt + 1
              /\ pc' = pc
    /\ Step
    /\ UNCHANGED <<sess, call, todo, top, sub, sc, ret>>

\* the rpm constituents of a module document that was parsed
RpmConstituents(mmd) ==
    IF mmd.kind = "v2" THEN {mmd.rpms[i] : i \in 1..Len(mmd.rpms)} ELSE {}

\* the return of sync_module_components to sync_repo (lines 1260-1266)
sync_module_components_return ==
    /\ pc = "smc_return"
    /\ IF call.op = "sync_module_components"
       THEN /\ ret' = [at |-> "sync_module_components", value |-> mod.result]
            /\ pc' = "done"
            /\ UNCHANGED <<top, sub>>
       ELSE /\ ret' = ret
            /\ IF mod.result
               THEN /\ SetF([Did(F, "modules") EXCEPT
                               !.unpushed = Constituents(mod.modulemd) \ mod.pushed,
                               !.mcomps = RpmConstituents(mod.modulemd)])
                    /\ pc' = sync_repo_after("modules")
               ELSE /\ SetF([F EXCEPT !.result = None,
                                      !.mcomps = RpmConstituents(mod.modulemd)])
                    /\ pc' = "sr_return"
    /\ mod' = NoFrame
    /\ Step
    /\ UNCHANGED <<sess, call, todo, sc, attempt, fx>>

\* lines 1268-1276: the push of sync_repo's own repository, or the return
\* of the destination reference when the caller owns the directory
sync_repo_push ==
    /\ pc = "push"
    /\ IF ~F.pushrepo
       THEN /\ SrReturn(LinkRef(F.dscm.link, F.dscm.ref))
            /\ UNCHANGED <<attempt, fx>>
       ELSE IF ~range_retry(attempt, retry)
       THEN SrReturn(None) /\ attempt' = 0 /\ fx' = fx
       ELSE \E ok \in BOOLEAN :
              /\ repo_push(F.ns, F.comp, F.dscm, ok)
              /\ IF ok
                 THEN /\ SetF([Did(F, "push") EXCEPT
                                 !.result = LinkRef(F.dscm.link, HeadOf(F.comp))])
                      /\ pc' = "sr_return"
                      /\ attempt' = 0
                 ELSE UNCHANGED <<top, sub, pc>> /\ attempt' = attempt + 1
    /\ Step
    /\ UNCHANGED <<sess, call, todo, mod, sc, ret>>

(***************************************************************************)
(* build_comp (lines 1426-1621).  An outcome is the get_buildsys outcome   *)
(* (NoGb when get_buildsys is not called), the requests sent to the        *)
(* destination build system or to MBS, and the value returned ("raise"     *)
(* when an exception leaves the function).                                 *)
(***************************************************************************)
NoGb == [ok |-> FALSE, opened |-> FALSE]
NoValue == [none |-> TRUE]
Value(n) == [none |-> FALSE, id |-> n]
Raised == [none |-> TRUE, raise |-> TRUE]

\* the identifiers the build systems hand out
TaskIds == {1}

\* "{}/{}/{}#{}".format(prefix, ns, name, ref)
BuildScmurl(prefix, ns, name, ref) ==
    prefix \o <<"/", ns, "/">> \o name \o <<"#">> \o ref

\* the answers of MBS to the POST (lines 1525-1609)
MbsResponses ==
    {[kind |-> "raise"], [kind |-> "401"], [kind |-> "failed"],
     [kind |-> "garbage"]}
        \cup {[kind |-> k, id |-> n] : k \in {"object", "list"}, n \in TaskIds}

\* the id handed back whatever the status of the response
mbs_result_unchecked(resp) ==
    IF resp.kind = "raise" THEN NoValue
    ELSE IF resp.kind \in {"object", "list"} THEN Value(resp.id)
    ELSE Value(0)

\* lines 1581-1609
mbs_result(resp) ==
    IF resp.kind \in {"raise", "401", "failed"} THEN NoValue
    ELSE IF resp.kind = "garbage" THEN Raised
    ELSE Value(resp.id)

\* build_comp without the check of control.build
build_comp_refused_unless_excluded(cfg, comp, ns) ==
    \/ ~Configured(cfg)
    \/ comp \in cfg.main.control.exclude[ns]

\* lines 1440-1450: the calls build_comp refuses
build_comp_refused(cfg, comp, ns) ==
    \/ ~Configured(cfg)
    \/ comp \in cfg.main.control.exclude[ns]
    \/ ~cfg.main.control.build

NoBuild(result) == [gb |-> NoGb, builds |-> <<>>, result |-> result]

\* lines 1453-1491 and 1493-1609 outside of the dry-run mode: the session of
\* the destination build system, then the request
build_comp_submit(cfg, s, comp, ref, ns) ==
    LET gbs == get_buildsys_outcomes(s.destination)
        buildcomp == IF comp \in DOMAIN cfg.comps[ns]
                     THEN split_scmurl(cfg.comps[ns][comp].destination).comp
                     ELSE comp
    IN  IF ns = "rpms"
        THEN LET sub_(ok) ==
                   [ns |-> ns, comp |-> comp, via |-> "koji", ref |-> ref,
                    scmurl |-> BuildScmurl(cfg.main.build.prefix, ns,
                                           buildcomp, ref),
                    target |-> cfg.main.build.target,
                    scratch |-> cfg.main.build.scratch, ok |-> ok]
             IN  {[gb |-> o, builds |-> <<>>, result |-> NoValue] :
                     o \in {x \in gbs : ~x.ok}}
                 \cup {[gb |-> o, builds |-> <<sub_(FALSE)>>,
                        result |-> NoValue] : o \in {x \in gbs : x.ok}}
                 \cup {[gb |-> o, builds |-> <<sub_(TRUE)>>,
                        result |-> Value(n)] :
                           o \in {x \in gbs : x.ok}, n \in TaskIds}
        ELSE LET ms == split_module(buildcomp)
                 ps == split_module(cfg.main.build.platform)
                 sub_(r) ==
                   [ns |-> ns, comp |-> comp, via |-> "mbs", resp |-> r,
                    ref |-> ref,
                    scmurl |-> BuildScmurl(cfg.main.build.prefix, ns,
                                           ms.name, ref),
                    branch |-> ms.stream,
                    buildrequire_overrides |-> <<ps.name, ps.stream>>,
                    scratch |-> cfg.main.build.scratch,
                    ok |-> r.kind \in {"object", "list"}]
                 auth == cfg.main.destination.mbs.auth_method
             IN  IF auth \notin {<<"kerberos">>, <<"oidc">>}
                 THEN {[gb |-> o, builds |-> <<>>, result |-> NoValue] :
                          o \in gbs}
                 ELSE {[gb |-> o,
                        builds |-> <<sub_(r)>>,
                        result |-> mbs_result(r)] :
                           o \in gbs, r \in MbsResponses}

\* build_comp that submits whatever the mode
build_comp_outcomes_live(cfg, dry, s, comp, ref, ns) ==
    IF build_comp_refused(cfg, comp, ns) THEN {NoBuild(NoValue)}
    ELSE build_comp_submit(cfg, s, comp, ref, ns)

\* build_comp: in the dry-run mode (lines 1452, 1462, 1475-1483 and 1516,
\* 1611-1618) nothing is asked of the destination and the task id is 0
build_comp_outcomes(cfg, dry, s, comp, ref, ns) ==
    IF build_comp_refused(cfg, comp, ns) THEN {NoBuild(NoValue)}
    ELSE IF dry THEN {NoBuild(Value(0))}
    ELSE build_comp_submit(cfg, s, comp, ref, ns)

\* the state after build_comp with outcome o
BuildEffects(o) ==
    /\ sess' = SessAfter(sess, "destination", o.gb)
    /\ fx' = [Opened(fx, "destination", o.gb) EXCEPT !.builds = @ \o o.builds]

(***************************************************************************)
(* Records of process_components: "namespace/component" strings, the       *)
(* expression cre (lines 39-41) and sorted(compset, key=str.lower).        *)
(***************************************************************************)
\* "{}/{}".format(ns, comp)
Rec(ns, comp) == <<ns, "/">> \o comp

Junk == <<"junk">>

\* the characters of a token
Spell(tok) ==
    CASE tok = "rpms" -> <<"r", "p", "m", "s">>
      [] tok = "modules" -> <<"m", "o", "d", "u", "l", "e", "s">>
      [] tok = "m-devel" -> <<"m", "-", "d", "e", "v", "e", "l">>
      [] tok = "junk" -> <<"j", "u", "n", "k">>
      [] OTHER -> <<tok>>

RECURSIVE Chars(_)
\* the characters of a string
Chars(t) == IF t = <<>> THEN <<>> ELSE Spell(Head(t)) \o Chars(Tail(t))

\* str.lower on one character
Lower(ch) == IF ch = "B" THEN "b" ELSE ch

\* the characters that occur, in code point order
Alphabet ==
    <<"-", "/", "1", ":", "B", "a", "b", "d", "e", "j", "k", "l", "m", "n",
      "o", "p", "r", "s", "u", "v">>

Ord(ch) == CHOOSE i \in 1..Len(Alphabet) : Alphabet[i] = ch

RECURSIVE LessChars(_, _)
\* x < y for strings of characters
LessChars(x, y) ==
    IF y = <<>> THEN FALSE
    ELSE IF x = <<>> THEN TRUE
    ELSE IF Head(x) # Head(y) THEN Ord(Head(x)) < Ord(Head(y))
    ELSE LessChars(Tail(x), Tail(y))

\* the key of the sort of line 1796
SortKey(rec) == [i \in 1..Len(Chars(rec)) |-> Lower(Chars(rec)[i])]

RECURSIVE Sorted_cased(_)
\* sorted(compset), without the key
Sorted_cased(S) ==
    IF S = {} THEN <<>>
    ELSE LET first == CHOOSE x \in S :
                         \A y \in S \ {x} : LessChars(Chars(x), Chars(y))
         IN  <<first>> \o Sorted_cased(S \ {first})

RECURSIVE Sorted(_)
\* sorted(compset, key=str.lower), for records with distinct keys
Sorted(S) ==
    IF S = {} THEN <<>>
    ELSE LET first == CHOOSE x \in S :
                         \A y \in S \ {x} : LessChars(SortKey(x), SortKey(y))
         IN  <<first>> \o Sorted(S \ {first})

\* an expression that takes a record without a namespace for an rpm
cre_match_loose(rec) ==
    LET parts == Split(rec, "/")
    IN  IF Len(parts) = 2
        THEN [matched |-> TRUE, namespace |-> parts[1][1], component |-> parts[2]]
        ELSE [matched |-> TRUE, namespace |-> "rpms", component |-> rec]

\* cre.match(rec): the groups, or no match
cre_match(rec) ==
    LET parts == Split(rec, "/")
    IN  IF /\ Len(parts) = 2
           /\ parts[1] \in {<<"rpms">>, <<"modules">>}
           /\ parts[2] # <<>>
        THEN [matched |-> TRUE, namespace |-> parts[1][1], component |-> parts[2]]
        ELSE [matched |-> FALSE]

\* regex.sub(r"(\.git)?\??$", "", s) of line 1681
\* a substitution that strips nothing
StripGit_nothing(t) == t

StripGit(t) ==
    LET q == IF t # <<>> /\ t[Len(t)] = "?" THEN SubSeq(t, 1, Len(t) - 1) ELSE t
    IN  IF q # <<>> /\ q[Len(q)] = ".git" THEN SubSeq(q, 1, Len(q) - 1) ELSE q

\* a suffix test that every topic passes
EndsWith_any(t, suffix) == TRUE

\* str.endswith
EndsWith(t, suffix) ==
    /\ Len(t) >= Len(suffix)
    /\ SubSeq(t, Len(t) - Len(suffix) + 1, Len(t)) = suffix

(***************************************************************************)
(* The return of sync_repo to its caller.                                  *)
(***************************************************************************)
\* a constituent whose synchronization failed taken for a synchronized one
constituent_never_failed(scmurl) == FALSE

\* line 961: whether the sync_repo call of a constituent failed
constituent_failed(scmurl) == scmurl = None

sync_repo_return ==
    /\ pc = "sr_return"
    /\ IF sub.active
       THEN \* lines 953-967 of sync_module_components
            /\ IF constituent_failed(sub.result)
               THEN SmcReturn(FALSE)
               ELSE /\ mod' = [mod EXCEPT !.scmurls = Append(@, sub.result),
                                          !.i = @ + 1]
                    /\ pc' = "smc_rpms"
            /\ sub' = NoFrame
            /\ UNCHANGED <<top, ret, fx>>
       ELSE /\ fx' = [fx EXCEPT !.results =
                        Append(@, [ns |-> top.ns, comp |-> top.comp,
                                   value |-> top.result])]
            /\ IF call.op = "sync_repo"
               THEN /\ ret' = [at |-> "sync_repo", value |-> top.result]
                    /\ pc' = "done"
               ELSE /\ ret' = ret
                    /\ pc' = IF call.op = "process_message" THEN "pm_build"
                                                            ELSE "pcs_build"
            /\ UNCHANGED <<top, sub, mod>>
    /\ Step
    /\ UNCHANGED <<sess, call, todo, sc, attempt>>

(***************************************************************************)
(* process_message (lines 1624-1744).                                      *)
(***************************************************************************)
\* lines 1706 and 1825: whether sync_repo returned a reference; a
\* dispatcher that does not look
sync_always(scmurl) == TRUE

\* a dispatcher that builds from the branch of the destination
build_ref_branch(scmurl) == <<"rhel">>

\* lines 1708-1709 and 1826-1828: the ref handed to build_comp
build_ref(scmurl) == split_scmurl(scmurl).ref

sync_succeeded(scmurl) == scmurl # None

\* line 1696: whether the strict mode lets the component through; a
\* dispatcher that does not filter
process_message_unfiltered(cfg, ns, comp) == TRUE

process_message_filter(cfg, ns, comp) ==
    comp \in DOMAIN cfg.comps[ns] \/ ~cfg.main.control.strict

\* the call of sync_repo by a dispatcher, with the remote operations
\* counted from this call on
Dispatch(ns, comp, nvr, f) ==
    /\ top' = Frame(ns, comp, nvr, FALSE, None, None, None)
    /\ fx' = [NoEffects EXCEPT
                 !.sessions = f.sessions,
                 !.syncs = Append(f.syncs, [ns |-> ns, comp |-> comp, nvr |-> nvr]),
                 !.results = f.results,
                 !.builds = f.builds]
    /\ pc' = "sync_repo"

\* lines 1696-1705 and 1735-1741
process_message_dispatch(ns, comp, nvr, f, binfo) ==
    /\ IF process_message_filter(c, ns, comp)
             /\ comp \notin c.main.control.exclude[ns]
       THEN Dispatch(ns, comp, nvr, f)
       ELSE UNCHANGED top /\ fx' = f /\ pc' = "done"
    /\ call' = IF binfo.none
               THEN [op |-> "process_message", ns |-> ns, comp |-> comp]
               ELSE [op |-> "process_message", ns |-> ns, comp |-> comp,
                     binfo |-> [name |-> binfo.name, scmurl |-> binfo.scmurl]]

process_message(msg) ==
    /\ pc = "idle"
    /\ LET end(p) == /\ pc' = p
                     /\ call' = [op |-> "process_message", ns |-> "none", comp |-> None]
                     /\ UNCHANGED <<top, sess, fx>>
       IN  IF ~Configured(c) THEN end("done")
           ELSE IF ~EndsWith(msg.topic, <<"buildsys.tag">>) THEN end("done")
           ELSE IF ~({"name", "version", "release", "tag"} \subseteq DOMAIN msg.body)
           THEN end("done")
           ELSE
             LET comp == msg.body.name
                 nvr == Nvr(msg.body.name, msg.body.version, msg.body.release)
                 tag == msg.body.tag
             IN  IF "rpms" \notin DOMAIN c.main.trigger THEN end("raised")
                 ELSE IF tag = c.main.trigger.rpms
                 THEN process_message_dispatch("rpms", comp, nvr, fx, NoInfo)
                      /\ sess' = sess
                 ELSE IF "modules" \notin DOMAIN c.main.trigger THEN end("raised")
                 ELSE IF tag = c.main.trigger.modules
                 THEN \E o \in get_build_info_outcomes(c, sess, nvr) :
                        /\ sess' = SessAfter(sess, "source", o.gb)
                        /\ IF Unnamed(o.bi)
                           THEN /\ fx' = Opened(fx, "source", o.gb)
                                /\ pc' = "done"
                                /\ call' = [op |-> "process_message", ns |-> "none", comp |-> None]
                                /\ top' = top
                           ELSE IF o.bi.name # StripGit(split_scmurl(o.bi.scmurl).comp)
                           THEN /\ fx' = Opened(fx, "source", o.gb)
                                /\ pc' = "done"
                                /\ call' = [op |-> "process_message", ns |-> "none",
                                            comp |-> None,
                                            binfo |-> [name |-> o.bi.name,
                                                       scmurl |-> o.bi.scmurl]]
                                /\ top' = top
                           ELSE process_message_dispatch(
                                    "modules", NameStream(o.bi.name, o.bi.stream),
                                    nvr, Opened(fx, "source", o.gb), o.bi)
                 ELSE end("done")
    /\ UNCHANGED <<globals, koji, pair, lc, todo, sub, mod, sc, attempt, ret>>

\* lines 1706-1734: the build after the synchronization
process_message_build ==
    /\ pc = "pm_build"
    /\ IF sync_succeeded(top.result) /\ c.main.control.build
       THEN \E o \in build_comp_outcomes(c, dry_run, sess, call.comp,
                                         build_ref(top.result), call.ns) :
              /\ BuildEffects(o)
              /\ ret' = [at |-> "build_comp", value |-> o.result]
              /\ pc' = IF "raise" \in DOMAIN o.result THEN "raised" ELSE "done"
       ELSE UNCHANGED <<sess, fx, ret>> /\ pc' = "done"
    /\ Step
    /\ UNCHANGED <<call, todo, top, sub, mod, sc, attempt>>

(***************************************************************************)
(* process_components (lines 1747-1835).                                   *)
(***************************************************************************)
RECURSIVE latest_map_first(_, _, _)
\* the map that keeps the first build of a name and stream
latest_map_first(t, i, latest) ==
    IF i > Len(t.builds) THEN latest
    ELSE latest_map_first(t, i + 1,
            IF Unnamed(t.infos[i]) THEN latest
            ELSE latest @@
                 (NameStream(t.infos[i].name, t.infos[i].stream) :> t.builds[i]))

RECURSIVE latest_map(_, _, _)
\* lines 1769-1780: the loop over the tagged module builds from index i on
latest_map(t, i, latest) ==
    IF i > Len(t.builds) THEN latest
    ELSE latest_map(t, i + 1,
            IF Unnamed(t.infos[i]) THEN latest
            ELSE (NameStream(t.infos[i].name, t.infos[i].stream) :> t.builds[i])
                     @@ latest)

\* latest.get(m["component"]) for the record rec
latest_get(latest, rec) ==
    LET m == cre_match(rec)
    IN  IF m.matched /\ m.component \in DOMAIN latest
        THEN latest[m.component] ELSE None

\* lines 1782-1792: the records gathered from the triggers
gathered(pkgs, latest) ==
    {Rec("rpms", x) : x \in pkgs} \cup {Rec("modules", k) : k \in DOMAIN latest}

\* the arguments process_components is called with
CompSets ==
    {[isset |-> FALSE]}
        \cup {[isset |-> TRUE, recs |-> S] :
                 S \in {{}, {Rec("rpms", RpmA), Rec("rpms", RpmB)},
                        {Rec("modules", ModM), Junk}}}

process_components(compset) ==
    /\ pc = "idle"
    /\ LET plain == [op |-> "process_components", ns |-> "none", comp |-> None]
           end(p) == /\ pc' = p
                     /\ todo' = todo
                     /\ call' = plain
                     /\ UNCHANGED <<sess, fx>>
           raised == pc' = "raised" /\ todo' = todo /\ call' = plain
           \* the call keeps the answer of listTagged, the argument and the
           \* map until the loop starts
           start(recs, latest, t) ==
                     /\ pc' = "pcs_loop"
                     /\ todo' = [i \in 1..Cardinality(recs) |->
                                   [rec |-> Sorted(recs)[i],
                                    nvr |-> latest_get(latest, Sorted(recs)[i])]]
                     /\ call' = [op |-> "process_components", ns |-> "none",
                                 comp |-> None, tagged |-> t,
                                 compset |-> compset.recs, latest |-> latest]
       IN  IF ~compset.isset \/ ~Configured(c) THEN end("done")
           ELSE \E o \in get_buildsys_outcomes(sess.source) :
                  /\ sess' = SessAfter(sess, "source", o)
                  /\ fx' = Opened(fx, "source", o)
                  /\ IF ~o.ok \/ "modules" \notin DOMAIN c.main.trigger
                     THEN raised
                     ELSE \/ raised
                          \/ \E t \in TaggedModules(c) :
                               LET latest == latest_map(t, 1, EmptyMap)
                               IN  IF compset.recs # {}
                                   THEN start(compset.recs, latest, t)
                                   ELSE IF "rpms" \notin DOMAIN c.main.trigger
                                   THEN raised
                                   ELSE \E pkgs \in SUBSET CompNames.rpms :
                                          /\ Cardinality(gathered(pkgs, latest)) <= MaxComps
                                          /\ start(gathered(pkgs, latest), latest, t)
    /\ UNCHANGED <<globals, koji, pair, lc, top, sub, mod, sc, attempt, ret>>

\* lines 1796-1824: the next record is skipped or handed to sync_repo
process_components_next ==
    /\ pc = "pcs_loop"
    /\ IF todo = <<>>
       THEN /\ pc' = "done"
            /\ call' = [op |-> call.op, ns |-> call.ns, comp |-> call.comp,
                        compset |-> call.compset]
            /\ UNCHANGED <<todo, top, fx>>
       ELSE LET m == cre_match(Head(todo).rec)
                skip == /\ todo' = Tail(todo)
                        /\ call' = [op |-> call.op, ns |-> call.ns,
                                    comp |-> call.comp,
                                    compset |-> call.compset]
                        /\ UNCHANGED <<pc, top, fx>>
            IN  IF ~m.matched THEN skip
                ELSE IF m.component \in c.main.control.exclude[m.namespace]
                THEN skip
                ELSE IF /\ c.main.control.strict
                        /\ m.component \notin DOMAIN c.comps[m.namespace]
                THEN skip
                ELSE /\ Dispatch(m.namespace, m.component, Head(todo).nvr, fx)
                     /\ call' = [op |-> "process_components",
                                 ns |-> m.namespace, comp |-> m.component,
                                 compset |-> call.compset]
                     /\ todo' = todo
    /\ Step
    /\ UNCHANGED <<sess, sub, mod, sc, attempt, ret>>

\* lines 1825-1829: the build after the synchronization
process_components_build ==
    /\ pc = "pcs_build"
    /\ IF sync_succeeded(top.result)
       THEN \E o \in build_comp_outcomes(c, dry_run, sess, call.comp,
                                         build_ref(top.result), call.ns) :
              /\ BuildEffects(o)
              /\ ret' = [at |-> "build_comp", value |-> o.result]
              /\ pc' = IF "raise" \in DOMAIN o.result THEN "raised" ELSE "pcs_loop"
       ELSE UNCHANGED <<sess, fx, ret>> /\ pc' = "pcs_loop"
    /\ todo' = Tail(todo)
    /\ Step
    /\ UNCHANGED <<call, top, sub, mod, sc, attempt>>

(***************************************************************************)
(* Calls of the library functions by a caller other than the dispatchers,  *)
(* and the setters.                                                        *)
(***************************************************************************)
\* sync_repo(comp, ns, nvr)
call_sync_repo(ns, comp, nvr) ==
    /\ pc = "idle"
    /\ top' = Frame(ns, comp, nvr, FALSE, None, None, None)
    /\ call' = [op |-> "sync_repo", ns |-> ns, comp |-> comp]
    /\ pc' = "sync_repo"
    /\ UNCHANGED <<globals, koji, pair, lc, sess, todo, sub, mod, sc, attempt, ret, fx>>

\* sync_cache(comp, sources, ns)
call_sync_cache(ns, comp, sources) ==
    /\ pc = "idle"
    /\ sc' = ScFrame(ns, comp, sources)
    /\ call' = [op |-> "sync_cache", ns |-> ns, comp |-> comp]
    /\ pc' = "sync_cache"
    /\ UNCHANGED <<globals, koji, pair, lc, sess, todo, top, sub, mod, attempt, ret, fx>>

\* build_comp(comp, ref, ns)
call_build_comp(ns, comp, ref) ==
    /\ pc = "idle"
    /\ \E o \in build_comp_outcomes(c, dry_run, sess, comp, ref, ns) :
          /\ BuildEffects(o)
          /\ ret' = [at |-> "build_comp", value |-> o.result]
          /\ pc' = IF "raise" \in DOMAIN o.result THEN "raised" ELSE "done"
    /\ call' = [op |-> "build_comp", ns |-> ns, comp |-> comp]
    /\ UNCHANGED <<globals, koji, pair, lc, todo, top, sub, mod, sc, attempt>>

\* sync_module_components(comp, nvr)
call_sync_module_components(comp, nvr) ==
    /\ pc = "idle"
    /\ mod' = ModFrame(comp, nvr, NoMmd)
    /\ call' = [op |-> "sync_module_components", ns |-> "modules", comp |-> comp]
    /\ pc' = "smc"
    /\ UNCHANGED <<globals, koji, pair, lc, sess, todo, top, sub, sc, attempt, ret, fx>>

\* get_build(comp, ns), lines 1889-1981
call_get_build(ns, comp) ==
    /\ pc = "idle"
    /\ IF ~Configured(c)
       THEN /\ ret' = [at |-> "get_build", value |-> None]
            /\ UNCHANGED <<sess, fx>>
       ELSE \E o \in get_build_outcomes(c, sess, ns, comp) :
              /\ sess' = SessAfter(sess, "source", o.gb)
              /\ fx' = Opened(fx, "source", o.gb)
              /\ ret' = [at |-> "get_build", value |-> o.nvr]
    /\ call' = [op |-> "get_build", ns |-> ns, comp |-> comp]
    /\ pc' = "done"
    /\ UNCHANGED <<globals, koji, pair, lc, todo, top, sub, mod, sc, attempt>>

\* get_build_info(nvr), lines 1838-1886
call_get_build_info(nvr) ==
    /\ pc = "idle"
    /\ IF ~Configured(c)
       THEN /\ ret' = [at |-> "get_build_info", value |-> NoInfo]
            /\ UNCHANGED <<sess, fx>>
       ELSE \E o \in get_build_info_outcomes(c, sess, nvr) :
              /\ sess' = SessAfter(sess, "source", o.gb)
              /\ fx' = Opened(fx, "source", o.gb)
              /\ ret' = [at |-> "get_build_info", value |-> o.bi]
    /\ call' = [op |-> "get_build_info", ns |-> "none", comp |-> nvr]
    /\ pc' = "done"
    /\ UNCHANGED <<globals, koji, pair, lc, todo, top, sub, mod, sc, attempt>>

\* a get_buildsys that opens sessions without a configuration
get_buildsys_unguarded(cfg, which) == which \notin Roles

\* lines 1992-1997: the calls get_buildsys answers with None at once
get_buildsys_refused(cfg, which) ==
    ~Configured(cfg) \/ which \notin Roles

\* get_buildsys(which), the age of a cached session left to the environment
call_get_buildsys(which) ==
    /\ pc = "idle"
    /\ IF get_buildsys_refused(c, which)
       THEN /\ ret' = [at |-> "get_buildsys", value |-> NoGb]
            /\ UNCHANGED <<sess, fx>>
       ELSE \E o \in get_buildsys_outcomes(sess[which]) :
              /\ sess' = SessAfter(sess, which, o)
              /\ fx' = Opened(fx, which, o)
              /\ ret' = [at |-> "get_buildsys", value |-> o]
    /\ call' = [op |-> "get_buildsys", ns |-> "none", comp |-> None]
    /\ pc' = "done"
    /\ UNCHANGED <<globals, koji, pair, lc, todo, top, sub, mod, sc, attempt>>

\* retries(val), lines 63-73
retries(val) ==
    /\ pc = "idle"
    /\ retry' = val
    /\ UNCHANGED <<c, dry_run, lc, sess, koji, pair, pipeline_vars>>

\* pretend(val), lines 76-85
pretend(val) ==
    /\ pc = "idle"
    /\ dry_run' = val
    /\ UNCHANGED <<c, retry, lc, sess, koji, pair, pipeline_vars>>

\* the entry point is over: its frames, the record of its remote operations
\* and the record of the load_config call are dropped
Finish ==
    /\ pc \in {"done", "raised"}
    /\ call' = NoCall
    /\ pc' = "idle"
    /\ todo' = <<>>
    /\ top' = NoFrame
    /\ sub' = NoFrame
    /\ mod' = NoFrame
    /\ sc' = NoFrame
    /\ attempt' = 0
    /\ ret' = NoReturn
    /\ fx' = NoEffects
    /\ lc' = LcIdle(lc.installed)
    /\ UNCHANGED <<globals, koji, pair, sess>>

(***************************************************************************)
(* Spec: the library driven by its callers.  The configurations loaded     *)
(* are those of PipelineDocs; the callers pass the arguments below.        *)
(***************************************************************************)
PipelineDocs ==
    {FullDoc("v1", "kerberos", Platform, Control(TRUE, TRUE, FALSE),
             NoExclude, CompsListed),
     FullDoc("v2", "oidc", Platform, Control(TRUE, FALSE, TRUE),
             [rpms |-> {RpmB}, modules |-> {}], CompsOverride),
     FullDoc("v2", "kerberos", Platform, Control(FALSE, FALSE, TRUE),
             NoExclude, CompsRpm)}

PipelineRepos ==
    {[kind |-> "nofile"]}
        \cup {[kind |-> "doc", doc |-> d] : d \in PipelineDocs}
        \cup {[kind |-> "doc", doc |-> Without(d, {<<"configuration", "git">>})] :
                 d \in {x \in PipelineDocs : x.ver = "v1"}}

\* fedora-messaging messages
Msg(topic, name, version, release, tag) ==
    [topic |-> topic,
     body |-> [name |-> name, version |-> version, release |-> release,
               tag |-> tag]]

TagTopic == <<"org.", "buildsys.tag">>

Messages ==
    UNION {{Msg(TagTopic, RpmA, <<"1">>, <<"1">>, Main(d).trigger.rpms),
            Msg(TagTopic, RpmB, <<"1">>, <<"1">>, Main(d).trigger.rpms),
            Msg(TagTopic, <<"m">>, <<"1">>, <<"r1">>, Main(d).trigger.modules),
            Msg(<<"org.", "buildsys.untag">>, RpmA, <<"1">>, <<"1">>,
                Main(d).trigger.rpms)} :
              d \in PipelineDocs}
    \cup {Msg(TagTopic, RpmA, <<"1">>, <<"1">>, <<"other">>),
          [topic |-> TagTopic, body |-> [name |-> RpmA]]}

\* the arguments of the direct calls
SyncRepoArgs ==
    {[ns |-> "rpms", comp |-> x, nvr |-> None] : x \in CompNames.rpms}

SyncCacheArgs ==
    {[ns |-> "rpms", comp |-> x, sources |-> S] :
        x \in CompNames.rpms, S \in {{}, {E1, E2}}}

BuildCompArgs ==
    UNION {{[ns |-> ns, comp |-> x, ref |-> <<"head">>] : x \in CompNames[ns]} :
              ns \in Namespaces}

Init ==
    /\ c = NoConfig
    /\ retry \in 0..MaxRetry
    /\ dry_run = FALSE
    /\ lc = LcIdle(c)
    /\ sess = [source |-> FALSE, destination |-> FALSE]
    /\ koji = KojiIdle
    /\ pair = PairIdle
    /\ PipelineIdle

LoadConfig ==
    /\ load_config(PipelineRepos)
    /\ call' = [op |-> "load_config"]
    /\ pc' = "done"
    /\ UNCHANGED <<todo, top, sub, mod, sc, attempt, ret, fx>>

Retries == \E val \in 0..MaxRetry : retries(val)

Pretend == \E val \in BOOLEAN : pretend(val)

ProcessMessage == \E msg \in Messages : process_message(msg)

ProcessComponents == \E compset \in CompSets : process_components(compset)

CallSyncRepo == \E a \in SyncRepoArgs : call_sync_repo(a.ns, a.comp, a.nvr)

CallSyncCache == \E a \in SyncCacheArgs : call_sync_cache(a.ns, a.comp, a.sources)

CallBuildComp == \E a \in BuildCompArgs : call_build_comp(a.ns, a.comp, a.ref)

CallSyncModuleComponents ==
    \E nvr \in {None, Nvr(<<"m">>, <<"1">>, <<"r1">>)} :
        call_sync_module_components(ModM, nvr)

CallGetBuild ==
    \E ns \in Namespaces : \E comp \in CompNames[ns] : call_get_build(ns, comp)

CallGetBuildInfo ==
    \E nvr \in {Nvr(RpmA, <<"1">>, <<"1">>), Nvr(<<"m">>, <<"1">>, <<"r1">>)} :
        call_get_build_info(nvr)

CallGetBuildsys ==
    \E which \in {"source", "destination", "other"} : call_get_buildsys(which)

Next ==
    \/ LoadConfig
    \/ Retries
    \/ Pretend
    \/ ProcessMessage
    \/ ProcessComponents
    \/ CallSyncRepo
    \/ CallSyncCache
    \/ CallBuildComp
    \/ CallSyncModuleComponents
    \/ CallGetBuild
    \/ CallGetBuildInfo
    \/ CallGetBuildsys
    \/ sync_repo_guard
    \/ sr_get_build
    \/ sr_get_build_info
    \/ sr_resolve
    \/ clone_destination_repo
    \/ fetch_upstream_repo
    \/ configure_repo
    \/ parse_destination_sources
    \/ sync_repo_merge
    \/ sync_repo_pull
    \/ parse_source_sources
    \/ sync_cache_guard
    \/ sync_cache_loop
    \/ sync_cache_attempt
    \/ sync_cache_return
    \/ sync_repo_expand
    \/ sync_module_components_entry
    \/ sync_module_components_rpms
    \/ sync_module_components_modules
    \/ sync_module_components_push
    \/ sync_module_components_return
    \/ sync_repo_push
    \/ sync_repo_return
    \/ process_message_build
    \/ process_components_next
    \/ process_components_build
    \/ Finish

Spec == Init /\ [][Next]_vars

(***************************************************************************)
(* Properties.                                                             *)
(***************************************************************************)
\* C1: in the dry-run mode every push attempt made by repo_push, whoever
\* started the run, is a push with --dry-run
C1_DryRunPushes == dry_run => \A p \in fx.pushes : p.dry

\* a module was pushed in the dry-run mode after its constituents
C1_Witness ==
    /\ dry_run
    /\ \E p \in fx.pushes : p.ns = "modules"
    /\ \E p \in fx.pushes : p.ns = "rpms"

\* C2: in the dry-run mode sync_cache uploads nothing, and it returns the
\* number of entries exactly when every entry was found in the destination
\* cache or downloaded, an error otherwise
C2_DryRunCache ==
    dry_run =>
        /\ fx.uploads = {}
        /\ (pc = "sc_return" /\ sc.dcname # None) =>
              IF {h[1] : h \in sc.handled} = sc.sources
              THEN /\ sc.result = [none |-> FALSE, n |-> Cardinality(sc.sources)]
                   /\ \A h \in sc.handled : h[2] \in {"present", "downloaded"}
              ELSE sc.result.none

\* sync_cache returns 2 in the dry-run mode after a download without upload
C2_Witness ==
    /\ dry_run
    /\ pc = "sc_return"
    /\ sc.result = [none |-> FALSE, n |-> 2]
    /\ \E h \in sc.handled : h[2] = "downloaded"

\* C3: in the dry-run mode build_comp, for a loaded configuration with
\* control.build set and a component that is not excluded, returns 0, and no
\* request is sent to the destination build system or MBS and get_buildsys is
\* not asked for the destination session
C3_DryRunBuild ==
    dry_run =>
        /\ fx.builds = <<>>
        /\ call.op # "get_buildsys" => "destination" \notin fx.sessions
        /\ (ret.at = "build_comp" /\ ~build_comp_refused(c, call.comp, call.ns))
              => ret.value = Value(0)

\* build_comp returned 0 for a module in the dry-run mode
C3_Witness ==
    /\ dry_run
    /\ call.op = "build_comp"
    /\ call.ns = "modules"
    /\ ret = [at |-> "build_comp", value |-> Value(0)]

\* C4: a dispatcher submits at most one build for a component of an event or
\* of a sweep, only for a component whose sync_repo call returned a
\* reference, and none in the dry-run mode
C4_OneBuildPerSync ==
    call.op \in {"process_message", "process_components"} =>
        /\ call.op = "process_message" => Len(fx.builds) <= 1
        /\ \A i, j \in 1..Len(fx.builds) :
              (fx.builds[i].ns = fx.builds[j].ns
                  /\ fx.builds[i].comp = fx.builds[j].comp) => i = j
        /\ \A i \in 1..Len(fx.builds) :
              \E k \in 1..Len(fx.results) :
                 /\ fx.results[k].ns = fx.builds[i].ns
                 /\ fx.results[k].comp = fx.builds[i].comp
                 /\ fx.results[k].value # None
        /\ dry_run => fx.builds = <<>>

\* a sweep submitted a build for each of two components
C4_Witness ==
    /\ call.op = "process_components"
    /\ Len(fx.builds) = 2
    /\ fx.builds[1].ok
    /\ fx.builds[2].ok

\* C5: a component of control.exclude[ns] is never cloned, never uploaded to
\* the destination cache and never built, whichever entry point names it
C5_ExcludedUntouched ==
    Configured(c) =>
        \A ns \in Namespaces : \A comp \in c.main.control.exclude[ns] :
            /\ <<ns, comp>> \notin fx.clones
            /\ \A u \in fx.uploads : ~(u.ns = ns /\ u.comp = comp)
            /\ \A i \in 1..Len(fx.builds) :
                  ~(fx.builds[i].ns = ns /\ fx.builds[i].comp = comp)

\* sync_repo was called for an excluded component and returned
C5_Witness ==
    /\ Configured(c)
    /\ ret.at = "sync_repo"
    /\ call.comp \in c.main.control.exclude[call.ns]

\* C6: in the strict mode the dispatchers call sync_repo and build_comp only
\* for the keys of components[ns]
C6_StrictDispatch ==
    (Configured(c) /\ c.main.control.strict
        /\ call.op \in {"process_message", "process_components"}) =>
        /\ \A i \in 1..Len(fx.syncs) :
              fx.syncs[i].comp \in DOMAIN c.comps[fx.syncs[i].ns]
        /\ \A i \in 1..Len(fx.builds) :
              fx.builds[i].comp \in DOMAIN c.comps[fx.builds[i].ns]
        /\ top.active => top.comp \in DOMAIN c.comps[top.ns]
        /\ call.ns \in Namespaces /\ call.comp \notin DOMAIN c.comps[call.ns]
              => fx = [NoEffects EXCEPT !.sessions = fx.sessions]

\* a tagging event for a component that is not configured was handled in the
\* strict mode
C6_Witness ==
    /\ Configured(c)
    /\ c.main.control.strict
    /\ call.op = "process_message"
    /\ call.ns = "rpms"
    /\ call.comp \notin DOMAIN c.comps[call.ns]
    /\ call.comp \notin c.main.control.exclude[call.ns]
    /\ pc = "done"

\* C7: a load_config call that fails leaves the configuration as it was, so
\* that sync_repo and sync_cache resolve every component as before
C7_FailedReloadKeepsConfig ==
    lc.status \in {"none", "raise"} =>
        /\ c = lc.old
        /\ Configured(lc.old) =>
              \A ns \in Namespaces : \A comp \in CompNames[ns] :
                  Resolve(c, ns, comp) = Resolve(lc.old, ns, comp)

\* a document that does not validate was loaded over a configuration
C7_Witness ==
    /\ lc.status = "none"
    /\ Configured(lc.old)
    /\ lc.repo.kind = "doc"
    /\ lc.repo.doc.ver = "v2"

\* the keys C8 names
RequiredKeys ==
    UNION {{<<k, "scm">>, <<k, "cache", "url">>, <<k, "cache", "cgi">>,
            <<k, "cache", "path">>, <<k, "profile">>} :
              k \in {"source", "destination"}}
    \cup {<<"destination", "mbs">>, <<"trigger", "rpms">>, <<"trigger", "modules">>}
    \cup {<<"build", k>> : k \in {"prefix", "target", "platform"}}
    \cup {<<"git", k>> : k \in {"author", "email", "message"}}
    \cup {<<"control", k>> : k \in {"build", "merge", "strict"}}
    \cup {<<"defaults", dk, dkk>> :
             dk \in {"cache", "rpms", "modules"}, dkk \in {"source", "destination"}}

\* C8: load_config fails on a document that lacks a required key and
\* installs nothing
C8_MissingKeyFatal ==
    (/\ lc.status # "idle"
     /\ lc.repo.kind = "doc"
     /\ \E k \in RequiredKeys : ~In(lc.repo.doc, k))
        => (lc.status # "ok" /\ c = lc.old)

\* C9: the configuration is the one the last successful load_config call
\* installed, whatever was called since
C9_ConfigFrozen == c = lc.installed

\* a tagging event was handled up to the build on a loaded configuration
C9_Witness ==
    /\ Configured(c)
    /\ call.op = "process_message"
    /\ pc = "done"
    /\ Len(fx.builds) = 1

\* the steps of sync_repo before step
Before(step) ==
    {sync_repo_steps[j] :
        j \in 1..((CHOOSE i \in 1..Len(sync_repo_steps) :
                      sync_repo_steps[i] = step) - 1)}

StepNames == {sync_repo_steps[i] : i \in 1..Len(sync_repo_steps)}

\* C10: a sync_repo call is at a step only when every earlier step has
\* succeeded and no later one has been taken: clone, fetch, configure,
\* destination manifest, merge or pull, source manifest, lookaside cache,
\* module expansion (for modules only), push
C10_StepOrder ==
    /\ \A f \in {top, sub} :
          f.active => \E i \in 0..Len(sync_repo_steps) :
                         f.done = {sync_repo_steps[j] : j \in 1..i}
    /\ pc \in StepNames => F.done = Before(pc)
    /\ (sc.active /\ call.op # "sync_cache") => F.done = Before("cache")
    /\ (mod.active /\ call.op # "sync_module_components") =>
          (top.ns = "modules" /\ top.done = Before("modules"))
    /\ \A p \in fx.pushes :
          (top.active /\ p.ns = top.ns /\ p.comp = top.comp)
              => Before("push") \subseteq top.done
    /\ \A f \in {top, sub} :
          (f.active /\ <<f.ns, f.comp>> \in fx.fetches) => "clone" \in f.done

\* a module went through every step, the push included
C10_Witness ==
    /\ pc = "sr_return"
    /\ top.active
    /\ top.ns = "modules"
    /\ top.done = StepNames
    /\ top.result # None

\* the steps of sync_repo before the lookaside cache is touched
EarlySteps == {"clone", "fetch", "configure", "dsrc", "strategy"}

\* C11: while one of clone, fetch, configure, the destination manifest and
\* the merge or pull has not succeeded in a sync_repo call, nothing has been
\* uploaded or pushed for its component, the call returns None if it
\* returns, and no build is submitted for the component afterwards
C11_FirstFailureAborts ==
    \A f \in {top, sub} :
       (f.active /\ ~(EarlySteps \subseteq f.done)) =>
          /\ \A u \in fx.uploads : ~(u.ns = f.ns /\ u.comp = f.comp)
          /\ \A p \in fx.pushes : ~(p.ns = f.ns /\ p.comp = f.comp)
          /\ (pc \in {"sr_return", "pm_build", "pcs_build", "pcs_loop", "done"})
                => f.result = None
          /\ (f = top /\ pc \in {"pm_build", "pcs_build", "pcs_loop", "done"})
                => \A i \in 1..Len(fx.builds) :
                      ~(fx.builds[i].ns = f.ns /\ fx.builds[i].comp = f.comp)

\* the pull of a tagging event's component failed after the fetch, and the
\* event was dropped with nothing uploaded, pushed or built
C11_Witness ==
    /\ call.op = "process_message"
    /\ pc = "done"
    /\ top.active
    /\ top.done = {"clone", "fetch", "configure", "dsrc"}
    /\ ~c.main.control.merge
    /\ retry > 0
    /\ fx.builds = <<>>

\* C12: when sync_module_components returns, every constituent of the
\* module has been pushed or none has
C12_AtomicPush ==
    (pc = "smc_return" /\ ~dry_run) =>
        \/ mod.pushed = {}
        \/ mod.pushed = Constituents(mod.modulemd)

\* C13: sync_module_components pushes a constituent only when the sync_repo
\* call of every rpm constituent has returned a reference, each called with
\* a directory of the caller and so without a push of its own; when one of
\* them fails the function returns False with no constituent pushed, and
\* the module's own repository is not pushed
C13_PushAfterAllSynced ==
    /\ sub.active => (sub.gitdir /\ ~sub.pushrepo /\ mod.pushed = {})
    /\ (mod.active /\ mod.modulemd.kind = "v2") =>
          /\ (mod.pushed # {} \/ \E p \in fx.pushes : p.ns = "rpms") =>
                /\ ~sub.active
                /\ Len(mod.scmurls) = Len(mod.modulemd.rpms)
                /\ \A i \in 1..Len(mod.scmurls) : mod.scmurls[i] # None
          /\ (pc = "smc_return" /\ Len(mod.scmurls) < Len(mod.modulemd.rpms)) =>
                /\ ~mod.result
                /\ fx.pushes = {}
    /\ (top.active /\ top.ns = "modules" /\ "modules" \notin top.done) =>
          \A p \in fx.pushes : p.ns # "modules"

\* the second rpm constituent of a module failed to synchronize after the
\* first had been synchronized
C13_Witness ==
    /\ pc = "smc_return"
    /\ mod.modulemd.kind = "v2"
    /\ Len(mod.modulemd.rpms) = 2
    /\ Len(mod.scmurls) = 1
    /\ ~mod.result
    /\ retry > 0

\* C14: the repository of a module is pushed by sync_repo only when every
\* constituent its metadata lists has been pushed
C14_ParentAfterConstituents ==
    (~dry_run /\ top.active /\ top.ns = "modules" /\ "push" \in top.done)
        => top.unpushed = {}

\* the entries of a set of handled entries that are in the destination
\* cache: found there, or uploaded
InCache(handled) == {h[1] : h \in {x \in handled : x[2] \in {"present", "uploaded"}}}

\* C15: outside of the dry-run mode, a sync_repo call that is past the
\* lookaside step, and so any that returns a reference, has every entry of
\* the difference of the manifests in the destination cache; when sync_cache
\* gives up on an entry, sync_repo returns None and has not pushed
C15_CacheComplete ==
    ~dry_run =>
        /\ \A f \in {top, sub} : f.active =>
              /\ f.result # None => "cache" \in f.done
              /\ "cache" \in f.done => InCache(f.cached) = f.srcdiff
              /\ "cache" \notin f.done =>
                    /\ \A p \in fx.pushes : ~(p.ns = f.ns /\ p.comp = f.comp)
                    /\ f.result = None
        /\ (pc = "sc_return" /\ sc.dcname # None) =>
              sc.result.none = (InCache(sc.handled) # sc.sources)

\* sync_repo returned a reference after an entry was uploaded to the
\* destination cache
C15_Witness ==
    /\ ~dry_run
    /\ pc = "sr_return"
    /\ top.active
    /\ top.result # None
    /\ "push" \in top.done
    /\ top.srcdiff = {E2}
    /\ top.cached = {<<E2, "uploaded">>}

\* C16: a dispatcher submits no build for a component whose sync_repo call
\* returned None, and process_message does not call build_comp for it
C16_NoBuildAfterFailedSync ==
    call.op \in {"process_message", "process_components"} =>
        /\ \A k \in 1..Len(fx.results) :
              fx.results[k].value = None =>
                 \A i \in 1..Len(fx.builds) :
                    ~(fx.builds[i].ns = fx.results[k].ns
                        /\ fx.builds[i].comp = fx.results[k].comp)
        /\ (call.op = "process_message" /\ ret.at = "build_comp") =>
              /\ Len(fx.results) = 1
              /\ fx.results[1].value # None

\* in a sweep the sync of the first component failed and the second
\* component was built
C16_Witness ==
    /\ call.op = "process_components"
    /\ Len(fx.results) = 2
    /\ fx.results[1].value = None
    /\ fx.results[2].value # None
    /\ Len(fx.builds) = 1
    /\ fx.builds[1].comp = fx.results[2].comp

\* C17: with control.build false no build is submitted to the destination
\* build system or to MBS and no session is opened with the destination,
\* whoever calls build_comp, and build_comp returns None
C17_BuildsDisabled ==
    (Configured(c) /\ ~c.main.control.build) =>
        /\ fx.builds = <<>>
        /\ call.op # "get_buildsys" => "destination" \notin fx.sessions
        /\ ret.at = "build_comp" => ret.value = NoValue

\* a component of a sweep was synchronized and pushed, and build_comp was
\* called with the builds disabled
C17_Witness ==
    /\ Configured(c)
    /\ ~c.main.control.build
    /\ ~dry_run
    /\ call.op = "process_components"
    /\ pc = "done"
    /\ top.active
    /\ "push" \in top.done
    /\ top.result # None
    /\ ret.at = "build_comp"

\* whether the loop of process_components hands the record to sync_repo
Passes(rec) ==
    LET m == cre_match(rec)
    IN  /\ m.matched
        /\ m.component \notin c.main.control.exclude[m.namespace]
        /\ c.main.control.strict => m.component \in DOMAIN c.comps[m.namespace]

\* the number of sync_repo calls the dispatcher made for the record
SyncsOf(rec) ==
    Cardinality({k \in 1..Len(fx.syncs) :
                    Rec(fx.syncs[k].ns, fx.syncs[k].comp) = rec})

\* C18: when a sweep is over, no record that passes the filters is left
\* without its one sync_repo call, whatever happened to the records before
C18_SweepContinues ==
    (call.op = "process_components" /\ pc \in {"done", "raised"}) =>
        \A i \in 1..Len(todo) : Passes(todo[i].rec) => SyncsOf(todo[i].rec) = 1

\* the positions of the answer t of listTagged whose build resolved to a
\* name and a stream
Resolved(t) == {i \in 1..Len(t.builds) : ~Unnamed(t.infos[i])}

KeyAt(t, i) == NameStream(t.infos[i].name, t.infos[i].stream)

\* the last build of the answer that resolved to the key k
LastOf(t, k) ==
    t.builds[CHOOSE i \in Resolved(t) :
                /\ KeyAt(t, i) = k
                /\ \A j \in Resolved(t) : KeyAt(t, j) = k => j <= i]

Precedes(rec1, rec2) == LessChars(SortKey(rec1), SortKey(rec2))

\* C20: a sweep takes the records in the case-insensitive order of their
\* strings, one at a time: the sync_repo calls made so far are in that order
\* and before every record still to come, and a sync_repo call starts only
\* when the sync and the build of the records before it are over
C20_SortedOneAtATime ==
    call.op = "process_components" =>
        /\ \A i, j \in 1..Len(todo) :
              i < j => Precedes(todo[i].rec, todo[j].rec)
        /\ \A i, j \in 1..Len(fx.syncs) :
              i < j => Precedes(Rec(fx.syncs[i].ns, fx.syncs[i].comp),
                                Rec(fx.syncs[j].ns, fx.syncs[j].comp))
        /\ pc = "pcs_loop" =>
              /\ Len(fx.results) = Len(fx.syncs)
              /\ \A k \in 1..Len(fx.syncs) : \A i \in 1..Len(todo) :
                    Precedes(Rec(fx.syncs[k].ns, fx.syncs[k].comp), todo[i].rec)
        /\ (top.active /\ pc \notin {"pcs_loop", "pcs_build", "done", "raised"}) =>
              /\ Len(fx.results) = Len(fx.syncs) - 1
              /\ \A k \in 1..Len(fx.results) :
                    /\ fx.results[k].ns = fx.syncs[k].ns
                    /\ fx.results[k].comp = fx.syncs[k].comp
              /\ \A i \in 1..Len(fx.builds) :
                    \E k \in 1..Len(fx.results) :
                       /\ fx.builds[i].ns = fx.results[k].ns
                       /\ fx.builds[i].comp = fx.results[k].comp

\* the sweep of rpms/B and rpms/a took rpms/a first and started on rpms/B
\* after rpms/a had been synchronized and built
C20_Witness ==
    /\ call.op = "process_components"
    /\ pc = "clone"
    /\ Len(fx.syncs) = 2
    /\ fx.syncs[1].comp = RpmA
    /\ fx.syncs[2].comp = RpmB
    /\ Len(fx.builds) = 1
    /\ fx.builds[1].comp = RpmA

(***************************************************************************)
(* The messages that start a synchronization.                              *)
(***************************************************************************)
\* what process_message hands to sync_repo for a message, if anything
Triggered(msg, s) ==
    /\ msg.topic # <<>>
    /\ msg.topic[Len(msg.topic)] = "buildsys.tag"
    /\ {"name", "version", "release", "tag"} \subseteq DOMAIN msg.body
    /\ s.nvr = Nvr(msg.body.name, msg.body.version, msg.body.release)
    /\ \/ /\ "rpms" \in DOMAIN c.main.trigger
          /\ msg.body.tag = c.main.trigger.rpms
          /\ s.ns = "rpms"
          /\ s.comp = msg.body.name
       \/ /\ "modules" \in DOMAIN c.main.trigger
          /\ msg.body.tag = c.main.trigger.modules
          /\ s.ns = "modules"
          /\ \E o \in get_build_info_outcomes(c, sess, s.nvr) :
                /\ ~o.bi.none
                /\ o.bi.name # None
                /\ o.bi.stream # None
                /\ s.comp = NameStream(o.bi.name, o.bi.stream)

\* C21: process_message starts a synchronization only for a message whose
\* topic ends in buildsys.tag and whose tag is trigger.rpms (namespace rpms,
\* component the message's name) or trigger.modules (namespace modules,
\* component name:stream of the build's module information, which must be
\* available), with the NVR name-version-release; any other message starts
\* no synchronization, and a call that synchronized nothing builds nothing
C21_TriggerOnly ==
    /\ [][\A msg \in Messages :
            (process_message(msg) /\ (top'.active \/ fx'.syncs # <<>>))
                => /\ top'.active
                   /\ Len(fx'.syncs) = 1
                   /\ Triggered(msg, fx'.syncs[1])
                   /\ top'.ns = fx'.syncs[1].ns
                   /\ top'.comp = fx'.syncs[1].comp
                   /\ top'.nvr = fx'.syncs[1].nvr]_vars
    /\ [](call.op = "process_message" =>
            /\ Len(fx.syncs) <= 1
            /\ fx.syncs = <<>> => (fx.builds = <<>> /\ ~top.active))

\* a modules trigger started the synchronization of m:1 under the NVR m-1-r1
C21_Witness ==
    /\ call.op = "process_message"
    /\ top.active
    /\ fx.syncs = <<[ns |-> "modules", comp |-> ModM,
                     nvr |-> Nvr(<<"m">>, <<"1">>, <<"r1">>)]>>

(***************************************************************************)
(* The generated modules a modules trigger skips.                          *)
(***************************************************************************)
\* the last path segment of the link of scmurl without its longest suffix
\* of the form (.git)?(?)?
ScmComponent(scmurl) ==
    LET link == Split1(scmurl, "#")[1]
        parts == Split(link, "/")
        seg == parts[Len(parts)]
        suffixes == {<<>>, <<"?">>, <<".git">>, <<".git", "?">>}
        stems == {k \in 0..Len(seg) : SubSeq(seg, k + 1, Len(seg)) \in suffixes}
    IN  SubSeq(seg, 1, CHOOSE k \in stems : \A j \in stems : k <= j)

\* C22: for a modules trigger whose build information names the module,
\* process_message skips the event when the module name differs from the
\* last path segment of the build's scmurl link stripped of a trailing .git
\* and a trailing ?, and takes the event to the strict and exclude filters
\* when they are equal
C22_DevelSkipped ==
    (call.op = "process_message" /\ "binfo" \in DOMAIN call) =>
        IF call.binfo.name # ScmComponent(call.binfo.scmurl)
        THEN /\ call.ns = "none"
             /\ pc = "done"
             /\ ~top.active
             /\ fx.syncs = <<>>
        ELSE /\ call.ns = "modules"
             /\ split_module(call.comp).name = call.binfo.name
             /\ (pc = "done" /\ fx.syncs = <<>>) =>
                    \/ ~process_message_filter(c, call.ns, call.comp)
                    \/ call.comp \in c.main.control.exclude[call.ns]
             /\ (process_message_filter(c, call.ns, call.comp)
                    /\ call.comp \notin c.main.control.exclude[call.ns]) =>
                    /\ Len(fx.syncs) = 1
                    /\ fx.syncs[1].comp = call.comp

\* the build m-devel of the repository m.git? was skipped
C22_Witness ==
    /\ call.op = "process_message"
    /\ "binfo" \in DOMAIN call
    /\ call.binfo.name = <<"m-devel">>
    /\ ScmComponent(call.binfo.scmurl) = <<"m">>
    /\ pc = "done"

\* the build m of the repository m.git? went on to its synchronization
C22_Proceeds ==
    /\ call.op = "process_message"
    /\ "binfo" \in DOMAIN call
    /\ call.binfo.name = <<"m">>
    /\ top.active

(***************************************************************************)
(* What sync_repo returns, with and without a caller's directory.          *)
(***************************************************************************)
PushesOf(ns, comp) == {p \in fx.pushes : p.ns = ns /\ p.comp = comp}

\* C23: a sync_repo given a git directory never pushes and returns, on
\* success, the destination link with the destination ref; a sync_repo that
\* made its own directory returns success only after its push succeeded,
\* and returns the destination link with the commit id of HEAD
C23_PushAndReturn ==
    /\ sub.active =>
          /\ sub.gitdir
          /\ "push" \notin sub.done
          /\ PushesOf(sub.ns, sub.comp) = {}
    /\ (pc = "sr_return" /\ F.result # None) =>
          IF F.gitdir
          THEN /\ F.result = F.dscm.link \o <<"#">> \o F.dscm.ref
               /\ "push" \notin F.done
               /\ PushesOf(F.ns, F.comp) = {}
          ELSE /\ F.result = F.dscm.link \o <<"#", "head.">> \o F.comp
               /\ "push" \in F.done
               /\ PushesOf(F.ns, F.comp) # {}

\* a constituent synchronized in the module's directory returned its
\* destination reference while nothing of it was pushed
C23_Witness ==
    /\ pc = "sr_return"
    /\ sub.active
    /\ sub.gitdir
    /\ sub.result = sub.dscm.link \o <<"#">> \o sub.dscm.ref
    /\ PushesOf(sub.ns, sub.comp) = {}

\* a sync_repo with a directory of its own returned the pushed HEAD
C23_OwnDirectory ==
    /\ pc = "sr_return"
    /\ ~sub.active
    /\ top.active
    /\ top.result = top.dscm.link \o <<"#", "head.">> \o top.comp

(***************************************************************************)
(* The retry loops.                                                        *)
(***************************************************************************)
\* the loop of the position pc is at one of its passes
InRetryLoop ==
    \/ pc \in {"clone", "fetch", "sc_attempt"}
    \/ pc = "push" /\ F.pushrepo
    \/ pc = "smc_push" /\ mod.i <= Len(mod.scmurls)

\* the frame of the running sync_repo after the step
NextF == IF sub.active THEN sub' ELSE top'

\* the step leaves the loop with the operation done
LoopSucceeds ==
    CASE pc \in {"clone", "fetch"} -> pc \in NextF.done /\ pc' # "sr_return"
      [] pc = "push" -> "push" \in NextF.done /\ NextF.result # None
      [] pc = "smc_push" -> /\ mod'.i = mod.i + 1
                            /\ mod.modulemd.rpms[mod.i] \in mod'.pushed
                            /\ mod.modulemd.rpms[mod.i] \in
                                  {p.comp : p \in fx'.pushes}
      [] pc = "sc_attempt" -> /\ pc' = "sc_loop"
                              /\ sc.cur \notin sc'.todo
                              /\ \E p \in fx'.probes : p.file = sc.cur[1]

\* the step leaves the loop with the failure reported
LoopFails ==
    CASE pc \in {"clone", "fetch", "push"} ->
            pc' = "sr_return" /\ NextF.result = None /\ pc \notin NextF.done
      [] pc = "smc_push" -> pc' = "smc_return" /\ ~mod'.result
      [] pc = "sc_attempt" -> pc' = "sc_return" /\ sc'.result.none

\* C24: a retried remote operation (the clone of the configuration or of a
\* destination repository, the fetch of the source, a push, the handling of
\* one lookaside entry) is attempted at most retry times, stops at its first
\* successful attempt, and reports failure exactly when retry attempts have
\* failed, which with retry = 0 is before any attempt
C24_RetryBound ==
    /\ [](attempt <= retry)
    /\ [][InRetryLoop =>
            \/ /\ attempt < retry
               /\ attempt' = attempt + 1
               /\ pc' = pc
               /\ UNCHANGED <<top, sub, mod, sc>>
            \/ /\ attempt < retry
               /\ attempt' = 0
               /\ LoopSucceeds
            \/ /\ attempt = retry
               /\ attempt' = 0
               /\ fx' = fx
               /\ LoopFails]_vars
    /\ [](lc.status # "idle" =>
            /\ lc.attempts <= retry
            /\ IF lc.repo.kind = "unfetched"
               THEN lc.status = "none" /\ lc.attempts = retry
               ELSE lc.attempts >= 1)

\* the push of a synchronized repository has failed retry = 2 times: the
\* next step reports the failure
C24_Witness ==
    /\ pc = "push"
    /\ top.active
    /\ F.pushrepo
    /\ retry = MaxRetry
    /\ attempt = retry
    /\ PushesOf(F.ns, F.comp) # {}

(***************************************************************************)
(* get_buildsys (lines 1984-2052) with the clock.  koji.source and         *)
(* koji.destination are the attributes of the function: the cached session *)
(* (id) and its start time.  koji.which, prev, at, log and out describe    *)
(* the last call: its argument, the session cached when it was made, the   *)
(* time it read, the sessions it created, logged out and logged in, in     *)
(* order, and the value it returned.                                       *)
(***************************************************************************)
SessionLifetime == 3550
SecondsPerDay == 86400

\* the steps of the clock, the number of steps and the sessions created
Ticks == {1, SessionLifetime, SecondsPerDay}
MaxTicks == 3
MaxSessions == 3

\* a difference of times that loses its days
timedelta_within_day(d) == [days |-> 0, seconds |-> d % SecondsPerDay]

\* datetime.timedelta: the days and the seconds of a difference of times
timedelta(d) == [days |-> d \div SecondsPerDay, seconds |-> d % SecondsPerDay]

\* an age test that looks at the seconds alone
session_timed_out_seconds(session_age) == session_age.seconds > SessionLifetime

\* lines 2004-2006
session_timed_out(session_age) ==
    session_age.seconds > SessionLifetime \/ session_age.days > 0

\* line 2029: the session bsys.logout() is called on, bsys being bound to
\* the session created at line 2016
logout_session(cached, bsys) == bsys

get_buildsys(which) ==
    /\ pc = "idle"
    /\ LET cached == IF which \in Roles THEN koji[which] ELSE NoSession
           timed_out == /\ cached.has
                        /\ session_timed_out(timedelta(koji.now - cached.start))
           called == [koji EXCEPT !.which = which, !.prev = cached,
                                  !.at = koji.now, !.log = <<>>,
                                  !.out = [none |-> TRUE]]
           bsys == koji.made + 1
           create(ok) == [op |-> "create", id |-> bsys, ok |-> ok]
           logout(ok) == [op |-> "logout", id |-> logout_session(cached.id, bsys),
                          ok |-> ok]
           login(ok) == [op |-> "login", id |-> bsys, ok |-> ok]
           fresh == [has |-> TRUE, id |-> bsys, start |-> koji.now]
           failed(log) == [called EXCEPT !.made = bsys, !.log = log]
           stored(log) == [called EXCEPT !.made = bsys, !.log = log,
                                         ![which] = fresh,
                                         !.out = [none |-> FALSE, id |-> bsys]]
       IN  IF get_buildsys_refused(c, which)
           THEN koji' = called
           ELSE IF cached.has /\ ~timed_out
           THEN koji' = [called EXCEPT !.out = [none |-> FALSE, id |-> cached.id]]
           ELSE /\ koji.made < MaxSessions
                /\ \E created, out_ok, in_ok \in BOOLEAN :
                      koji' =
                        IF ~created THEN failed(<<create(FALSE)>>)
                        ELSE IF which = "source" THEN stored(<<create(TRUE)>>)
                        ELSE IF timed_out /\ ~out_ok
                        THEN failed(<<create(TRUE), logout(FALSE)>>)
                        ELSE LET pre == IF timed_out
                                        THEN <<create(TRUE), logout(TRUE)>>
                                        ELSE <<create(TRUE)>>
                             IN  IF in_ok THEN stored(pre \o <<login(TRUE)>>)
                                 ELSE failed(pre \o <<login(FALSE)>>)
    /\ UNCHANGED <<globals, lc, sess, pair, pipeline_vars>>

\* time passes between the calls
tick(d) ==
    /\ pc = "idle"
    /\ koji.ticks < MaxTicks
    /\ koji' = [koji EXCEPT !.now = @ + d, !.ticks = @ + 1]
    /\ UNCHANGED <<globals, lc, sess, pair, pipeline_vars>>

(***************************************************************************)
(* SpecSession: calls of get_buildsys as time passes, without a            *)
(* configuration and with one.                                             *)
(***************************************************************************)
InitSession ==
    /\ c \in {NoConfig} \cup {ConfigOf(d) : d \in PipelineDocs}
    /\ retry = MaxRetry
    /\ dry_run = FALSE
    /\ lc = LcIdle(c)
    /\ sess = [source |-> FALSE, destination |-> FALSE]
    /\ koji = KojiIdle
    /\ pair = PairIdle
    /\ PipelineIdle

GetBuildsys == \E which \in Roles \cup {"other"} : get_buildsys(which)

Tick == \E d \in Ticks : tick(d)

NextSession == GetBuildsys \/ Tick

SpecSession == InitSession /\ [][NextSession]_vars

\* the last call was made for a role, with a configuration
RoleCall == koji.which \in Roles /\ Configured(c)

LogOps(op) == {i \in 1..Len(koji.log) : koji.log[i].op = op}

C25_Reused ==
    /\ RoleCall
    /\ koji.prev.has
    /\ koji.at - koji.prev.start = 3550
    /\ koji.out = [none |-> FALSE, id |-> koji.prev.id]

\* the last call replaced a destination session that had aged out
Refreshed ==
    /\ RoleCall
    /\ koji.which = "destination"
    /\ koji.prev.has
    /\ koji.at - koji.prev.start > 3550
    /\ LogOps("logout") # {}

\* C26: when get_buildsys refreshes an aged-out destination session, the
\* session logged out is the stale cached one, and it is logged out before
\* the new session is authenticated
C26_StaleLoggedOut ==
    Refreshed =>
        \A i \in LogOps("logout") :
            /\ koji.log[i].id = koji.prev.id
            /\ \A j \in LogOps("login") : i < j

\* the last call failed to create or to authenticate a session
RefreshFailed ==
    /\ RoleCall
    /\ koji.log # <<>>
    /\ ~koji.log[Len(koji.log)].ok

ErrorValue ==
    [sync_repo |-> None, sync_module_components |-> FALSE,
     sync_cache |-> [none |-> TRUE], build_comp |-> NoValue,
     get_build |-> None, get_build_info |-> [none |-> TRUE],
     get_buildsys |-> [ok |-> FALSE, opened |-> FALSE]]

\* C27: while no configuration has been loaded, sync_repo,
\* sync_module_components, sync_cache, build_comp, process_message,
\* process_components, get_build, get_build_info and get_buildsys return
\* their error value, and no clone, fetch, probe, download, upload, push,
\* build-system call or session creation is made on the way
C27_Unconfigured ==
    (c = NoConfig /\ call.op \notin {"idle", "load_config"}) =>
        /\ call.op \in DOMAIN ErrorValue
                         \cup {"process_message", "process_components"}
        /\ [fx EXCEPT !.results = <<>>] = NoEffects
        /\ sess = [source |-> FALSE, destination |-> FALSE]
        /\ pc \in {"sync_repo", "sr_return", "sync_cache", "sc_return",
                   "smc", "smc_return", "done"}
        /\ ~sub.active
        /\ pc = "done" =>
              IF call.op \in DOMAIN ErrorValue
              THEN ret = [at |-> call.op, value |-> ErrorValue[call.op]]
              ELSE ret = NoReturn

\* get_buildsys was called before any configuration was loaded and returned
\* None
C27_Witness ==
    /\ c = NoConfig
    /\ pc = "done"
    /\ call.op = "get_buildsys"
    /\ ret = [at |-> "get_buildsys", value |-> ErrorValue.get_buildsys]

(***************************************************************************)
(* Modules that list module components.                                    *)
(***************************************************************************)
\* sync_module_components is about to return for metadata that lists a
\* module component
ListsModuleComponents ==
    /\ pc = "smc_return"
    /\ mod.active
    /\ mod.modulemd.kind = "v2"
    /\ mod.modulemd.modules # <<>>

\* C28: when the module's metadata lists at least one module component,
\* sync_module_components returns success and pushes no constituent
\* repository
C28_ModuleComponentsSucceed ==
    ListsModuleComponents => (mod.result /\ mod.pushed = {} /\ fx.pushes = {})

\* C28, amended: when the module's metadata lists at least one module
\* component, sync_module_components pushes no constituent repository, and
\* it returns success exactly when every rpm component the metadata lists
\* has been synchronized
C28_ModuleComponentsNoPush ==
    ListsModuleComponents =>
        /\ mod.pushed = {}
        /\ fx.pushes = {}
        /\ mod.result <=>
              /\ Len(mod.scmurls) = Len(mod.modulemd.rpms)
              /\ \A i \in 1..Len(mod.scmurls) : mod.scmurls[i] # None

\* the rpm component a of a module that also lists the module component n
\* was synchronized, and sync_module_components returns True with nothing
\* pushed
C28_Witness ==
    /\ ListsModuleComponents
    /\ mod.result
    /\ Len(mod.scmurls) = 1
    /\ fx.pushes = {}
    /\ retry > 0

(***************************************************************************)
(* Two runs of sync_cache on the same set of entries, one with dry_run     *)
(* False (n) and one with dry_run True (d).  While the two runs are at the *)
(* same point of the function they pick the same entry and the caches give *)
(* them the same answer; once they are not, each goes on by itself.        *)
(***************************************************************************)
\* lines 1334-1336: sync_cache past its guards, before the first entry
RunFrame(sources) ==
    [state |-> "loop", sources |-> sources, todo |-> sources, cur |-> <<>>,
     attempt |-> 0, log |-> <<>>, passes |-> <<>>, upfail |-> FALSE,
     result |-> [none |-> TRUE]]

\* lines 1334-1423: one step of sync_cache in the mode dry from the frame
\* R: at the head of the loop the entry s is taken or the count returned;
\* in the attempt loop one pass is made, the caches answering r
sync_cache_run(dry, rt, R, s, r) ==
    IF R.state = "loop"
    THEN IF R.todo = {}
         THEN [R EXCEPT !.state = "returned",
                        !.result = [none |-> FALSE, n |-> Cardinality(R.sources)]]
         ELSE [R EXCEPT !.state = "attempt", !.cur = s, !.attempt = 0]
    ELSE IF ~range_retry(R.attempt, rt)
         THEN [R EXCEPT !.state = "returned", !.result = [none |-> TRUE]]
         ELSE LET p == sync_cache_pass(dry, r)
                  ops == [i \in 1..Len(p.ops) |-> <<p.ops[i], R.cur[1]>>]
                  R1 == [R EXCEPT !.log = @ \o ops,
                                  !.passes = Append(@, [file |-> R.cur[1], r |-> r,
                                                        at |-> Len(R.log)]),
                                  !.upfail = @ \/ (p.raised /\ Len(p.ops) = 3)]
              IN  IF p.raised
                  THEN [R1 EXCEPT !.attempt = @ + 1]
                  ELSE [R1 EXCEPT !.attempt = 0, !.state = "loop",
                                  !.todo = @ \ {R.cur}]

\* where a run is in the function
RunControl(R) == [state |-> R.state, todo |-> R.todo, cur |-> R.cur,
               attempt |-> R.attempt]

Aligned == RunControl(pair.n) = RunControl(pair.d)

\* everything but the pair of runs
pair_others == <<globals, koji, lc, sess, pipeline_vars>>

\* the entries a run may pick next
Picks(R) == IF R.state = "loop" /\ R.todo # {} THEN R.todo ELSE {E1}

PairStart ==
    /\ ~pair.active
    /\ \E sources \in {{}, {E1}, {E1, E2}} :
          pair' = [active |-> TRUE, n |-> RunFrame(sources),
                   d |-> RunFrame(sources)]
    /\ UNCHANGED pair_others

\* both runs at the same point: the same entry, the same answer
PairLockstep ==
    /\ pair.active
    /\ Aligned
    /\ pair.n.state # "returned"
    /\ \E s \in Picks(pair.n), r \in CacheResponses :
          pair' = [pair EXCEPT !.n = sync_cache_run(FALSE, retry, pair.n, s, r),
                               !.d = sync_cache_run(TRUE, retry, pair.d, s, r)]
    /\ UNCHANGED pair_others

\* the runs have parted: the normal run goes on
PairNormalAlone ==
    /\ pair.active
    /\ ~Aligned
    /\ pair.n.state # "returned"
    /\ \E s \in Picks(pair.n), r \in CacheResponses :
          pair' = [pair EXCEPT !.n = sync_cache_run(FALSE, retry, pair.n, s, r)]
    /\ UNCHANGED pair_others

\* the runs have parted: the dry run goes on
PairDryAlone ==
    /\ pair.active
    /\ ~Aligned
    /\ pair.d.state # "returned"
    /\ \E s \in Picks(pair.d), r \in CacheResponses :
          pair' = [pair EXCEPT !.d = sync_cache_run(TRUE, retry, pair.d, s, r)]
    /\ UNCHANGED pair_others

\* both runs have returned
PairFinish ==
    /\ pair.active
    /\ pair.n.state = "returned"
    /\ pair.d.state = "returned"
    /\ pair' = PairIdle
    /\ UNCHANGED pair_others

InitPair ==
    /\ c \in {ConfigOf(d) : d \in PipelineDocs}
    /\ retry \in 0..MaxRetry
    /\ dry_run = FALSE
    /\ lc = LcIdle(c)
    /\ sess = [source |-> FALSE, destination |-> FALSE]
    /\ koji = KojiIdle
    /\ pair = PairIdle
    /\ PipelineIdle

NextPair ==
    \/ PairStart
    \/ PairLockstep
    \/ PairNormalAlone
    \/ PairDryAlone
    \/ PairFinish

SpecPair == InitPair /\ [][NextPair]_vars

\* the probes and downloads of a run, in order
Reads(log) == SelectSeq(log, LAMBDA x : x[1] # "upload")

Uploads(log) == SelectSeq(log, LAMBDA x : x[1] = "upload")

BothReturned ==
    /\ pair.active
    /\ pair.n.state = "returned"
    /\ pair.d.state = "returned"

Unlisted(ops) == {p \in ops : p.comp \notin DOMAIN c.comps[p.ns]}

\* C31: for a component that is not listed in components[ns], sync_cache
\* probes and uploads under the name defaults.cache.destination expands to,
\* and downloads under the name defaults.cache.source expands to
C31_DefaultCacheNames ==
    Configured(c) =>
        /\ \A p \in Unlisted(fx.probes \cup fx.uploads) :
              p.path = Expand(c.main.defaults.cache.destination,
                              "%(component)s" :> p.comp)
        /\ \A p \in Unlisted(fx.downloads) :
              p.path = Expand(c.main.defaults.cache.source,
                              "%(component)s" :> p.comp)

(***************************************************************************)
(* The order of the cache operations within a pass.                        *)
(***************************************************************************)
\* the operations the pass k of the run R added to its log
PassOps(R, k) ==
    LET from == R.passes[k].at
        upto == IF k < Len(R.passes) THEN R.passes[k + 1].at ELSE Len(R.log)
    IN  SubSeq(R.log, from + 1, upto)

\* C32 for the run R: every pass probes first; a pass whose probe found the
\* file makes no download and no upload; an upload comes right after the
\* download of the same pass, which did not raise
ProbeFirst(R) ==
    \A k \in 1..Len(R.passes) :
        LET ops == PassOps(R, k)
            p == R.passes[k]
        IN  /\ ops # <<>>
            /\ ops[1] = <<"probe", p.file>>
            /\ p.r = "present" => ops = <<<<"probe", p.file>>>>
            /\ \A i \in 2..Len(ops) :
                  /\ ops[i][1] # "probe"
                  /\ ops[i][1] = "upload" =>
                        /\ i = 3
                        /\ ops[2] = <<"download", p.file>>
                        /\ p.r # "download_raise"

\* C32: for each lookaside entry, every attempt in sync_cache probes the
\* destination cache first; when the probe reports the blob present, no
\* download and no upload is performed for that entry, and an upload is
\* performed only after a successful download of that entry in the same
\* attempt
C32_ProbeFirst ==
    pair.active => (ProbeFirst(pair.n) /\ ProbeFirst(pair.d))

\* the normal run returned after a pass that found a file present and a pass
\* that uploaded after a failed download of the same entry
C32_Witness ==
    /\ BothReturned
    /\ \E k \in 1..Len(pair.n.passes) : pair.n.passes[k].r = "present"
    /\ \E k \in 2..Len(pair.n.passes) :
          /\ pair.n.passes[k].r = "uploaded"
          /\ pair.n.passes[k - 1].r = "download_raise"
          /\ pair.n.passes[k - 1].file = pair.n.passes[k].file

(***************************************************************************)
(* The answer of MBS.                                                      *)
(***************************************************************************)
\* the step submits a module build to MBS
SubmitsToMbs ==
    /\ Len(fx'.builds) = Len(fx.builds) + 1
    /\ fx'.builds[Len(fx'.builds)].via = "mbs"

AboutToBuild ==
    /\ pc \in {"pm_build", "pcs_build"}
    /\ top.active
    /\ sync_succeeded(top.result)

\* C34: on the event path and on the sweep path the ref passed to build_comp
\* is the commit id of HEAD of the working tree sync_repo pushed for that
\* same component, and the build is submitted only after that push
\* succeeded
C34_BuildsPushedHead ==
    /\ AboutToBuild =>
          /\ top.ns = call.ns /\ top.comp = call.comp
          /\ build_ref(top.result) = HeadOf(top.comp)
          /\ "push" \in top.done
          /\ \E p \in PushesOf(top.ns, top.comp) : p.dry = dry_run
    /\ call.op \in {"process_message", "process_components"} =>
          \A i \in 1..Len(fx.builds) :
              /\ fx.builds[i].ref = HeadOf(fx.builds[i].comp)
              /\ \E k \in 1..Len(fx.results) :
                    /\ fx.results[k].ns = fx.builds[i].ns
                    /\ fx.results[k].comp = fx.builds[i].comp
                    /\ fx.results[k].value # None

\* the sweep submitted the build of a module from the head it pushed
C34_Witness ==
    /\ call.op = "process_components"
    /\ \E i \in 1..Len(fx.builds) :
          /\ fx.builds[i].ns = "modules"
          /\ fx.builds[i].ok
          /\ fx.builds[i].ref = HeadOf(ModM)

(***************************************************************************)
(* A sweep over a set the caller supplies.                                 *)
(***************************************************************************)
\* process_components is in its loop over a set that was given non-empty
GivenSet ==
    /\ call.op = "process_components"
    /\ "compset" \in DOMAIN call
    /\ call.compset # {}

\* C35: given a non-empty set, process_components synchronizes only members
\* of the set of the form namespace/component, the namespace rpms or
\* modules, that pass the exclude and strict filters; it adds no component
\* discovered from the trigger tags, and a malformed member is skipped
\* without any sync or build
C35_GivenSetOnly ==
    /\ [](GivenSet =>
            /\ \A i \in 1..Len(todo) : todo[i].rec \in call.compset
            /\ \A i \in 1..Len(fx.syncs) :
                  LET s == fx.syncs[i]
                  IN  /\ Rec(s.ns, s.comp) \in call.compset
                      /\ s.ns \in Namespaces
                      /\ cre_match(Rec(s.ns, s.comp)).matched
                      /\ s.comp \notin c.main.control.exclude[s.ns]
                      /\ c.main.control.strict => s.comp \in DOMAIN c.comps[s.ns]
            /\ \A i \in 1..Len(fx.builds) :
                  Rec(fx.builds[i].ns, fx.builds[i].comp) \in call.compset)
    /\ [][(GivenSet /\ pc = "pcs_loop" /\ todo # <<>>
              /\ ~cre_match(Head(todo).rec).matched) =>
             (fx' = fx /\ todo' = Tail(todo) /\ pc' = "pcs_loop"
                 /\ UNCHANGED <<top, sub, mod, sc>>)]_vars

\* the sweep over the module m:1 and a malformed record ended with the
\* module synchronized and nothing else
C35_Witness ==
    /\ GivenSet
    /\ call.compset = {Rec("modules", ModM), Junk}
    /\ pc = "pcs_loop"
    /\ todo = <<>>
    /\ Len(fx.syncs) = 1
    /\ fx.syncs[1].comp = ModM

(***************************************************************************)
(* SpecLatest: get_build for a module and the map of a sweep, on the same  *)
(* answer of listTagged.  Names and streams hold no colon.                 *)
(***************************************************************************)
\* what get_build_info makes of a tagged build: nothing, a build that is
\* not a module, or the name and stream of a module
ModuleInfos ==
    {NoInfo, [none |-> FALSE, name |-> None, stream |-> None]}
        \cup {[none |-> FALSE, name |-> n, stream |-> s] :
                 n \in {<<"m">>, <<"n">>}, s \in {<<"1">>, <<"2">>}}

\* the answers of listTagged(trigger.modules) with what get_build_info
\* returns for each build
TaggedAnswers ==
    UNION {{[kind |-> "list", builds |-> l, infos |-> i] :
              i \in [1..Len(l) -> ModuleInfos]} : l \in TaggedLists}

\* the components asked for: name:stream, the stream not empty
ModuleKeys ==
    {NameStream(n, s) : n \in {<<"m">>, <<"n">>}, s \in {<<"1">>, <<"2">>}}

\* get_build(comp, ns="modules") (lines 1933-1978) and the map of lines
\* 1769-1780, both for the answer t
get_build_and_latest(comp, t) ==
    /\ pc = "idle"
    /\ call' = [op |-> "get_build", ns |-> "modules", comp |-> comp,
                tagged |-> t, latest |-> latest_map(t, 1, EmptyMap)]
    /\ ret' = [at |-> "get_build", value |-> get_build_modules(comp, t)]
    /\ pc' = "done"
    /\ UNCHANGED <<globals, koji, pair, lc, sess, todo, top, sub, mod, sc,
                   attempt, fx>>

GetBuildAndLatest ==
    \E comp \in ModuleKeys, t \in TaggedAnswers : get_build_and_latest(comp, t)

InitLatest ==
    /\ c \in {ConfigOf(d) : d \in PipelineDocs}
    /\ retry = MaxRetry
    /\ dry_run = FALSE
    /\ lc = LcIdle(c)
    /\ sess = [source |-> TRUE, destination |-> FALSE]
    /\ koji = KojiIdle
    /\ pair = PairIdle
    /\ PipelineIdle

NextLatest == GetBuildAndLatest \/ Finish

SpecLatest == InitLatest /\ [][NextLatest]_vars

\* get_build and the map were applied to the same answer
Compared == call.op = "get_build" /\ "latest" \in DOMAIN call

\* C37: for every list of builds tagged with the modules trigger and every
\* component name:stream with a non-empty stream, get_build returns the NVR
\* the map of process_components holds for that key, the last build of the
\* list whose name and stream both match, and returns an error exactly when
\* the map has no such key
C37_GetBuildIsLatest ==
    Compared =>
        /\ call.comp \in DOMAIN call.latest =>
              /\ ret.value = call.latest[call.comp]
              /\ ret.value = LastOf(call.tagged, call.comp)
        /\ ret.value = None <=> call.comp \notin DOMAIN call.latest

\* r1 is tagged as m:2 and after it r2 as m:1, and get_build of m:2 gives r1
C37_Witness ==
    /\ Compared
    /\ call.comp = NameStream(<<"m">>, <<"2">>)
    /\ Len(call.tagged.builds) = 2
    /\ Resolved(call.tagged) = {1, 2}
    /\ KeyAt(call.tagged, 1) = NameStream(<<"m">>, <<"2">>)
    /\ KeyAt(call.tagged, 2) = NameStream(<<"m">>, <<"1">>)
    /\ ret.value = call.tagged.builds[1]

(***************************************************************************)
(* Excluded constituents.                                                  *)
(***************************************************************************)
\* the module being expanded lists an excluded rpm
ListsExcluded ==
    /\ mod.active
    /\ Configured(c)
    /\ RpmConstituents(mod.modulemd) \cap c.main.control.exclude.rpms # {}

\* sync_repo of a module is past the expansion of a document that lists an
\* excluded rpm
ListedExcluded ==
    /\ top.active
    /\ top.ns = "modules"
    /\ Configured(c)
    /\ top.mcomps \cap c.main.control.exclude.rpms # {}

\* C38: if an rpm constituent of a module is in control.exclude.rpms, the
\* synchronization of the module fails: the constituent is not cloned, no
\* constituent and no parent repository is pushed and no build is submitted
\* for the module; the strict filter is not applied to constituents
C38_ExcludedConstituent ==
    /\ [](/\ (sub.active /\ Configured(c)
                 /\ sub.comp \in c.main.control.exclude.rpms) =>
                /\ "clone" \notin sub.done
                /\ <<"rpms", sub.comp>> \notin fx.clones
                /\ sub.result = None
          /\ ListsExcluded =>
                /\ mod.pushed = {}
                /\ fx.pushes = {}
                /\ pc = "smc_return" => ~mod.result
          /\ ListedExcluded =>
                /\ top.result = None
                /\ "push" \notin top.done
                /\ fx.pushes = {}
                /\ \A i \in 1..Len(fx.builds) :
                      ~(fx.builds[i].ns = "modules"
                           /\ fx.builds[i].comp = top.comp))
    /\ [][(pc = "sync_repo" /\ sub.active /\ Configured(c)
              /\ sub.comp \notin c.main.control.exclude.rpms) =>
             pc' # "sr_return"]_vars

\* sync_repo of the module m:1, whose document lists the excluded rpm B
\* after the rpm a, returns None: a was cloned, B was not, nothing is pushed
C38_Witness ==
    /\ ListedExcluded
    /\ pc = "sr_return"
    /\ top.mcomps = {RpmA, RpmB}
    /\ <<"rpms", RpmA>> \in fx.clones
    /\ <<"rpms", RpmB>> \notin fx.clones
    /\ top.result = None

\* in the strict mode a constituent that components.rpms does not list is
\* cloned
C38_StrictPassed ==
    /\ sub.active
    /\ Configured(c)
    /\ c.main.control.strict
    /\ sub.comp \notin DOMAIN c.comps.rpms
    /\ "clone" \in sub.done

(***************************************************************************)
(* Listed without overrides, or not listed.                                *)
(***************************************************************************)
\* the configuration cfg without the entry of comp in components[ns]
Unlist(cfg, ns, comp) ==
    [cfg EXCEPT !.comps[ns] =
        [p \in DOMAIN cfg.comps[ns] \ {comp} |-> cfg.comps[ns][p]]]

\* the components the document d lists without any override
PlainlyListed(d, ns) ==
    {p \in DOMAIN DocComps(d, ns) : DocComps(d, ns)[p] = EmptyMap}

\* C39: for every namespace and component, the source and destination
\* repository URLs of sync_repo and the source and destination cache names
\* of sync_cache are the same when the component is listed in
\* components[ns] with no override as when it is not listed
C39_ListingIsNeutral ==
    \A d \in PipelineDocs :
        c = ConfigOf(d) =>
            \A ns \in Namespaces : \A p \in PlainlyListed(d, ns) :
                Resolve(c, ns, p) = Resolve(Unlist(c, ns, p), ns, p)

\* the repository URLs alone
C39_UrlsOnly ==
    \A d \in PipelineDocs :
        c = ConfigOf(d) =>
            \A ns \in Namespaces : \A p \in PlainlyListed(d, ns) :
                Resolve(c, ns, p).urls = Resolve(Unlist(c, ns, p), ns, p).urls

(***************************************************************************)
(* SpecLive: the two dispatchers, run to their end.  The program is         *)
(* sequential: once an entry point has been called the interpreter keeps   *)
(* executing it, and gives the control back to the caller at its end.      *)
(***************************************************************************)
InitLive ==
    /\ c \in {ConfigOf(d) : d \in PipelineDocs}
    /\ retry \in 0..MaxRetry
    /\ dry_run \in BOOLEAN
    /\ lc = LcIdle(c)
    /\ sess = [source |-> FALSE, destination |-> FALSE]
    /\ koji = KojiIdle
    /\ pair = PairIdle
    /\ PipelineIdle

\* the steps of a call in progress
Run ==
    \/ sync_repo_guard
    \/ sr_get_build
    \/ sr_get_build_info
    \/ sr_resolve
    \/ clone_destination_repo
    \/ fetch_upstream_repo
    \/ configure_repo
    \/ parse_destination_sources
    \/ sync_repo_merge
    \/ sync_repo_pull
    \/ parse_source_sources
    \/ sync_cache_guard
    \/ sync_cache_loop
    \/ sync_cache_attempt
    \/ sync_cache_return
    \/ sync_repo_expand
    \/ sync_module_components_entry
    \/ sync_module_components_rpms
    \/ sync_module_components_modules
    \/ sync_module_components_push
    \/ sync_module_components_return
    \/ sync_repo_push
    \/ sync_repo_return
    \/ process_message_build
    \/ process_components_next
    \/ process_components_build

NextLive ==
    \/ ProcessMessage
    \/ ProcessComponents
    \/ Run
    \/ Finish

\* an entry point is being executed
Running == pc \notin {"idle", "done", "raised"}

\* a step of Run is possible exactly while an entry point is being executed
RunEnabled == Running <=> ENABLED <<Run>>_vars

\* WF_vars(Run), with ENABLED <<Run>>_vars written as the state predicate
\* Running that RunEnabled shows it to be
Progress == <>[]Running => []<><<Run>>_vars

SpecLive == InitLive /\ [][NextLive]_vars /\ Progress /\ WF_vars(Finish)

\* a dispatcher has been called and has not reached its end
Dispatching ==
    /\ call.op \in {"process_message", "process_components"}
    /\ pc \notin {"done", "raised"}

\* C40: process_message and process_components reach their end whatever the
\* remote systems answer, after at most retry attempts of each remote
\* operation; sync_module_components calls sync_repo for the rpm
\* constituents of the module sync_repo was called for by the dispatcher,
\* and the sync_repo of a constituent never calls sync_module_components
C40_Terminates ==
    /\ Dispatching ~> pc \in {"done", "raised"}
    /\ [](attempt <= retry)
    /\ [](sub.active =>
             /\ sub.ns = "rpms"
             /\ mod.active
             /\ top.active /\ top.ns = "modules")
    /\ [][pc' = "smc" => pc = "modules" /\ ~sub.active]_vars

\* a sweep reached its end after the attempts to clone the one module and
\* those to clone the one rpm it was given were exhausted
C40_Witness ==
    /\ call.op = "process_components"
    /\ pc = "done"
    /\ retry = MaxRetry
    /\ Len(fx.results) >= 1
    /\ \A k \in 1..Len(fx.results) : fx.results[k].value = None
    /\ fx.clones # {}

(***************************************************************************)
(* The body POSTed to MBS.                                                 *)
(***************************************************************************)
\* C30: for a build of the modules component name:stream the branch of the
\* body POSTed to MBS is the stream of the component, and
\* buildrequire_overrides maps the name of build.platform to the list of
\* its stream alone, whether the component is listed in components.modules
\* or not
C30_BranchIsStream ==
    \A i \in 1..Len(fx.builds) :
        fx.builds[i].via = "mbs" =>
            /\ fx.builds[i].ns = "modules"
            /\ fx.builds[i].branch = split_module(fx.builds[i].comp).stream
            /\ fx.builds[i].buildrequire_overrides =
                  <<split_module(c.main.build.platform).name,
                    split_module(c.main.build.platform).stream>>

====
